---- MODULE Spec2Model ----
(***************************************************************************)
(* Model of the identifier resolution engine of src/server.js:             *)
(* resolveTrackingLogic, tryResolveViaWooSearch and the WooCommerce and    *)
(* Sendcloud clients they call.                                            *)
(*                                                                         *)
(* JavaScript values are tagged records: null, undefined, strings, lists   *)
(* and objects.  An object carries every property name its class may have; *)
(* a property the object does not have reads Undefined, as in JavaScript.  *)
(* One action is one completion of an awaited network call together with   *)
(* the synchronous code that runs after it, up to the next await.          *)
(***************************************************************************)
EXTENDS Integers, Sequences, FiniteSets, TLC

VARIABLES
    identifiers,   \* the argument of resolveTrackingLogic
    pc,            \* the await resolveTrackingLogic is suspended at
    wooOrder,      \* const wooOrder   (server.js:131)
    parcels,       \* const parcels    (server.js:134)
    tn,            \* const tn         (server.js:135)
    tracking,      \* const tracking   (server.js:137, 168)
    probes,        \* the running tryResolveViaWooSearch calls, in start order
    logs,          \* const logs = []  (server.js:124)
    result,        \* the value resolveTrackingLogic returned
    thrown,        \* TRUE when resolveTrackingLogic rejected
    calls,         \* the adapter calls issued so far, tagged with their step
    outcome,       \* history: the kind of return statement that ended the call
    exitStep,      \* history: the step of the chain that ended the call
    firstDone,     \* history: the phone probe that settled first (0: none yet)
    seqFailure,    \* history: a sequential single-shot call got a failed reply
    call,          \* one call of a pure helper: its name, argument and completion
    boot,          \* the process: its environment variables and whether it serves
    t17,           \* one run of the 17TRACK lookup flow (register, gettrackinfo)
    analyze,       \* one POST /sav/analyze request and the response sent
    resolve,       \* one POST /sav/resolve request of the standalone resolver
    chat,          \* the tasks map, the clock and the /chat requests in progress
    other          \* a second resolveTrackingLogic call, suspended at an await

vars == <<identifiers, pc, wooOrder, parcels, tn, tracking, probes, logs,
          result, thrown, calls, outcome, exitStep, firstDone, seqFailure,
          call, boot, t17, analyze, resolve, chat, other>>

\* what lies outside one resolveTrackingLogic call and one helper call
hostVars == <<boot, t17, analyze, resolve, chat, other>>

-----------------------------------------------------------------------------
(* JavaScript values *)

Null == [t |-> "null"]
Undefined == [t |-> "undefined"]
Str(s) == [t |-> "str", s |-> s]
Chars(cs) == [t |-> "chars", s |-> cs]
Bool(b) == [t |-> "bool", b |-> b]
Num(n) == [t |-> "num", n |-> n]
List(items) == [t |-> "list", items |-> items]
Obj(fields) == [t |-> "obj", f |-> fields]

\* v.k and v?.k on an object; a missing property reads undefined
Prop(v, k) ==
    IF v.t = "obj" /\ k \in DOMAIN v.f THEN v.f[k] ELSE Undefined

Nullish(v) == v.t \in {"null", "undefined"}

\* ToBoolean
Truthy(v) ==
    CASE v.t = "null" -> FALSE
      [] v.t = "undefined" -> FALSE
      [] v.t = "str" -> v.s # ""
      [] v.t = "chars" -> Len(v.s) > 0
      [] v.t = "bool" -> v.b
      [] v.t = "num" -> v.n # 0
      [] OTHER -> TRUE

\* a ?? b   and   a || b
Coalesce(a, b) == IF Nullish(a) THEN b ELSE a
OrElse(a, b) == IF Truthy(a) THEN a ELSE b

-----------------------------------------------------------------------------
(* HTTP replies and the completion of an async function *)

NetworkError == [kind |-> "network_error"]
Http(ok, body) == [kind |-> "http", ok |-> ok, body |-> body]

Failed(reply) == reply.kind = "network_error" \/ ~reply.ok

Return(v) == [threw |-> FALSE, value |-> v]
Throw == [threw |-> TRUE, value |-> Undefined]

-----------------------------------------------------------------------------
(* Upstream data the replies are drawn from *)

\* process.env.TRACKING_META_KEYS, split on "," and trimmed
TRACKING_META_KEYS == <<"_tracking_number", "_tracking_code">>

Order(id, shipCountry, billCountry, firstName, meta) ==
    Obj([id |-> id,
         shipping |-> Obj([country |-> shipCountry]),
         billing |-> Obj([country |-> billCountry, first_name |-> firstName]),
         meta_data |-> meta])

Meta(k, v) == Obj([key |-> Str(k), value |-> Str(v)])

\* a domestic order with no tracking number in its metadata
OrderFR == Order(Str("1234"), Str("FR"), Str("FR"), Str("Ana"), List(<<>>))
\* an order shipped abroad
OrderDE == Order(Str("5678"), Str("DE"), Str("FR"), Str("Bea"), List(<<>>))
\* an order with no country at all and a tracking number in its metadata
OrderMeta ==
    Order(Str("4321"), Undefined, Undefined, Undefined,
          List(<<Meta("_tracking_number", "M1")>>))

Orders == {OrderFR, OrderDE, OrderMeta}

\* GET /api/v2/parcels?order_number=... bodies
Parcel(direct, nested) ==
    Obj([tracking_number |-> direct,
         tracking |-> IF nested = Undefined THEN Undefined
                      ELSE Obj([tracking_number |-> nested])])

ParcelsBody(ps, rs, ds, p) ==
    Obj([parcels |-> ps, results |-> rs, data |-> ds, parcel |-> p])

ParcelPayloads ==
    { ParcelsBody(List(<<Parcel(Str("T1"), Undefined)>>), Undefined, Undefined, Undefined),
      ParcelsBody(Undefined, List(<<Parcel(Undefined, Str("T1"))>>), Undefined, Undefined),
      ParcelsBody(List(<<>>), Undefined, Undefined, Undefined),
      Null }

\* GET /api/v2/tracking/... bodies
TrackingBody(dest) == Obj([destination |-> dest])

TrackingPayloads == {TrackingBody(Str("FR")), TrackingBody(Str("DE")), Null}

-----------------------------------------------------------------------------
(* The clients: what each makes of the reply to its request *)

wooFetchOrdersBySearch(reply) ==
    IF reply.kind = "network_error" THEN Throw
    ELSE IF ~reply.ok THEN Return(List(<<>>))
    ELSE Return(reply.body)

wooFetchOrderById(reply) ==
    IF reply.kind = "network_error" THEN Throw
    ELSE IF ~reply.ok THEN Return(Null)
    ELSE Return(reply.body)

sendcloudGet(reply) ==
    IF reply.kind = "network_error" THEN Throw
    ELSE IF ~reply.ok THEN Throw
    ELSE Return(reply.body)

sendcloudFindParcelByOrderNumber(reply) == sendcloudGet(reply)

sendcloudTrackByTrackingNumber(reply) == sendcloudGet(reply)

\* meta.find(m => m.key === k && m.value)
MetaFind(meta, k) ==
    LET hits == {i \in 1..Len(meta) :
                    Prop(meta[i], "key") = Str(k) /\ Truthy(Prop(meta[i], "value"))}
    IN  IF hits = {} THEN Undefined
        ELSE meta[CHOOSE i \in hits : \A j \in hits : i <= j]

\* for (const k of keys) { const hit = ...; if (hit) tn = hit.value; }
RECURSIVE MetaLoop(_, _, _)
MetaLoop(meta, keys, acc) ==
    IF keys = <<>> THEN acc
    ELSE LET hit == MetaFind(meta, Head(keys))
         IN  MetaLoop(meta, Tail(keys),
                      IF Truthy(hit) THEN Prop(hit, "value") ELSE acc)

NoMatch ==
    Obj([order_number |-> Null, tracking_number |-> Undefined, country |-> Undefined])

wooLookupBySearchTermShippingOnly(orders) ==
    IF ~Truthy(orders) \/ orders.t # "list" \/ Len(orders.items) = 0
    THEN Return(NoMatch)
    ELSE LET latest == orders.items[1]
             md == OrElse(Prop(latest, "meta_data"), List(<<>>))
         IN  IF latest.t # "obj" \/ md.t # "list" THEN Throw
             ELSE Return(Obj(
                 [order_number |-> Prop(latest, "id"),
                  tracking_number |-> MetaLoop(md.items, TRACKING_META_KEYS, Null),
                  country |-> OrElse(Prop(Prop(latest, "shipping"), "country"),
                                     Str("FR"))]))

\* orders: the value wooFetchOrdersBySearch returned
wooLookupBySearchTerm(orders) ==
    IF ~Truthy(orders) \/ orders.t # "list" \/ Len(orders.items) = 0
    THEN Return(NoMatch)
    ELSE LET latest == orders.items[1]
             md == OrElse(Prop(latest, "meta_data"), List(<<>>))
         IN  IF latest.t # "obj" \/ md.t # "list" THEN Throw
             ELSE Return(Obj(
                 [order_number |-> Prop(latest, "id"),
                  tracking_number |-> MetaLoop(md.items, TRACKING_META_KEYS, Null),
                  country |-> OrElse(Prop(Prop(latest, "shipping"), "country"),
                                 OrElse(Prop(Prop(latest, "billing"), "country"),
                                        Str("FR")))]))

pickTrackingNumberNestedFirst(payload) ==
    LET candidates ==
            Coalesce(Prop(payload, "parcels"),
              Coalesce(Prop(payload, "results"),
                Coalesce(Prop(payload, "data"),
                  IF Truthy(Prop(payload, "parcel"))
                  THEN List(<<Prop(payload, "parcel")>>)
                  ELSE List(<<>>))))
        list == IF candidates.t = "list" THEN candidates.items ELSE <<>>
    IN  IF Len(list) = 0 THEN Null
        ELSE LET first == list[1]
             IN  OrElse(Prop(Prop(first, "tracking"), "tracking_number"),
                   OrElse(Prop(first, "tracking_number"), Null))

pickTrackingNumberFromParcelsResponse(payload) ==
    LET candidates ==
            Coalesce(Prop(payload, "parcels"),
              Coalesce(Prop(payload, "results"),
                Coalesce(Prop(payload, "data"),
                  IF Truthy(Prop(payload, "parcel"))
                  THEN List(<<Prop(payload, "parcel")>>)
                  ELSE List(<<>>))))
        list == IF candidates.t = "list" THEN candidates.items ELSE <<>>
    IN  IF Len(list) = 0 THEN Null
        ELSE LET first == list[1]
             IN  OrElse(Prop(first, "tracking_number"),
                   OrElse(Prop(Prop(first, "tracking"), "tracking_number"), Null))

checkInternationalBillingOnly(order) ==
    IF ~Truthy(order) THEN FALSE
    ELSE LET country == Prop(Prop(order, "billing"), "country")
         IN  Truthy(country) /\ country # Str("FR")

checkInternational(order) ==
    IF ~Truthy(order) THEN FALSE
    ELSE LET country == OrElse(Prop(Prop(order, "shipping"), "country"),
                               Prop(Prop(order, "billing"), "country"))
         IN  Truthy(country) /\ country # Str("FR")

-----------------------------------------------------------------------------
(* Phone candidates (server.js:148-159); strings are sequences of characters *)

Digits == {"0", "1", "2", "3", "4", "5", "6", "7", "8", "9"}

\* phone.replace(/\D/g, '')
RECURSIVE DigitsOnly(_)
DigitsOnly(s) ==
    IF s = <<>> THEN <<>>
    ELSE IF Head(s) \in Digits THEN <<Head(s)>> \o DigitsOnly(Tail(s))
    ELSE DigitsOnly(Tail(s))

StartsWith(s, p) == Len(s) >= Len(p) /\ SubSeq(s, 1, Len(p)) = p

\* s.substring(n)
Substring(s, n) == SubSeq(s, n + 1, Len(s))

\* Set.add: insertion order, no duplicate
SetAdd(set, c) == IF \E i \in 1..Len(set) : set[i] = c THEN set ELSE Append(set, c)

PhoneCandidatesLocalOnly(phone) ==
    LET rawDigits == DigitsOnly(phone)
        c1 == SetAdd(<<>>, rawDigits)
        c2 == SetAdd(c1, <<"+">> \o rawDigits)
        c3 == SetAdd(c2, <<"0", "0">> \o rawDigits)
        c4 == IF StartsWith(rawDigits, <<"3", "3">>) /\ Len(rawDigits) > 9
              THEN SetAdd(c3, <<"0">> \o Substring(rawDigits, 2)) ELSE c3
        c5 == IF StartsWith(rawDigits, <<"0">>) /\ Len(rawDigits) = 10
              THEN SetAdd(c4, <<"3", "3">> \o Substring(rawDigits, 1))
              ELSE c4
        c6 == IF StartsWith(rawDigits, <<"3", "2">>) /\ Len(rawDigits) > 8
              THEN SetAdd(c5, <<"0">> \o Substring(rawDigits, 2)) ELSE c5
        c7 == IF StartsWith(rawDigits, <<"4", "1">>) /\ Len(rawDigits) > 8
              THEN SetAdd(c6, <<"0">> \o Substring(rawDigits, 2)) ELSE c6
    IN  c7

PhoneCandidatesStrictGuard(phone) ==
    LET rawDigits == DigitsOnly(phone)
        c1 == SetAdd(<<>>, rawDigits)
        c2 == SetAdd(c1, <<"+">> \o rawDigits)
        c3 == SetAdd(c2, <<"0", "0">> \o rawDigits)
        c4 == IF StartsWith(rawDigits, <<"3", "3">>) /\ Len(rawDigits) > 9
              THEN SetAdd(c3, <<"0">> \o Substring(rawDigits, 2)) ELSE c3
        c5 == IF StartsWith(rawDigits, <<"0">>) /\ Len(rawDigits) = 10
              THEN SetAdd(SetAdd(c4, <<"3", "3">> \o Substring(rawDigits, 1)),
                          <<"+", "3", "3">> \o Substring(rawDigits, 1))
              ELSE c4
        c6 == IF StartsWith(rawDigits, <<"3", "2">>) /\ Len(rawDigits) > 8
              THEN SetAdd(c5, <<"0">> \o Substring(rawDigits, 2)) ELSE c5
        c7 == IF StartsWith(rawDigits, <<"4", "1">>) /\ Len(rawDigits) > 9
              THEN SetAdd(c6, <<"0">> \o Substring(rawDigits, 2)) ELSE c6
    IN  c7

PhoneCandidates(phone) ==
    LET rawDigits == DigitsOnly(phone)
        c1 == SetAdd(<<>>, rawDigits)
        c2 == SetAdd(c1, <<"+">> \o rawDigits)
        c3 == SetAdd(c2, <<"0", "0">> \o rawDigits)
        c4 == IF StartsWith(rawDigits, <<"3", "3">>) /\ Len(rawDigits) > 9
              THEN SetAdd(c3, <<"0">> \o Substring(rawDigits, 2)) ELSE c3
        c5 == IF StartsWith(rawDigits, <<"0">>) /\ Len(rawDigits) = 10
              THEN SetAdd(SetAdd(c4, <<"3", "3">> \o Substring(rawDigits, 1)),
                          <<"+", "3", "3">> \o Substring(rawDigits, 1))
              ELSE c4
        c6 == IF StartsWith(rawDigits, <<"3", "2">>) /\ Len(rawDigits) > 8
              THEN SetAdd(c5, <<"0">> \o Substring(rawDigits, 2)) ELSE c5
        c7 == IF StartsWith(rawDigits, <<"4", "1">>) /\ Len(rawDigits) > 8
              THEN SetAdd(c6, <<"0">> \o Substring(rawDigits, 2)) ELSE c6
    IN  c7

-----------------------------------------------------------------------------
(* Inputs *)

\* the longest order list a search reply carries
MaxSearchHits == 1

EMAIL == Chars(<<"a", "@", "b">>)
PHONE == Chars(<<"1", " ", "2">>)
\* a phone field holding no digit at all
NO_DIGIT_PHONE == Chars(<<"-", "-", "-">>)

Identifiers(e, p, o, t) ==
    Obj([email |-> e, phone |-> p, order_number |-> o, tracking_number |-> t])

\* no object at all, every field null, every combination without a phone, and
\* a phone alone, a phone field without digits with a tracking number, and
\* a phone with everything else
IdentifierSets ==
    {Null, Undefined, Identifiers(Null, Null, Null, Null)}
        \cup { Identifiers(e, Undefined, o, t) :
                 e \in {Undefined, EMAIL},
                 o \in {Undefined, Str("1234"), Str("5678")},
                 t \in {Undefined, Str("T0")} }
        \cup { Identifiers(Undefined, PHONE, Undefined, Undefined),
               Identifiers(Undefined, NO_DIGIT_PHONE, Undefined, Str("T0")),
               Identifiers(EMAIL, PHONE, Str("5678"), Str("T0")) }

\* const email = identifiers?.email ?? null;  and the three others
email == Coalesce(Prop(identifiers, "email"), Null)
phone == Coalesce(Prop(identifiers, "phone"), Null)
order_number_in == Coalesce(Prop(identifiers, "order_number"), Null)
tracking_in == Coalesce(Prop(identifiers, "tracking_number"), Null)

OrderLists == UNION {[1..n -> Orders] : n \in 0..MaxSearchHits}

SearchReplies ==
    {NetworkError, Http(FALSE, Null), Http(TRUE, Null)}
        \cup {Http(TRUE, List(l)) : l \in OrderLists}

ByIdReplies(id) ==
    {NetworkError, Http(FALSE, Null)}
        \cup {Http(TRUE, o) : o \in {x \in Orders : Prop(x, "id") = id}}

ParcelReplies ==
    {NetworkError, Http(FALSE, Null)} \cup {Http(TRUE, b) : b \in ParcelPayloads}

TrackReplies ==
    {NetworkError, Http(FALSE, Null)} \cup {Http(TRUE, b) : b \in TrackingPayloads}

-----------------------------------------------------------------------------
(* The values resolveTrackingLogic and tryResolveViaWooSearch return *)

ResultObj(intl, data, tnum, order, status) ==
    Obj([isInternational |-> intl, logs |-> List(logs), data |-> data,
         tracking_number |-> tnum, woo_order |-> order, status |-> status])

\* return { isInternational: true, logs };
InternationalResult == ResultObj(Bool(TRUE), Undefined, Undefined, Undefined, Undefined)

ResolvedResultNoOrder(data, tnum, order) ==
    ResultObj(Undefined, data, tnum, Null, Undefined)

\* return { logs, data: tracking, tracking_number: tn, woo_order: ... };
ResolvedResult(data, tnum, order) == ResultObj(Undefined, data, tnum, order, Undefined)

NoTrackingResultUnflagged(order) == ResultObj(Undefined, Null, Null, order, Undefined)

\* return { logs, data: null, ..., woo_order: wooOrderFull, status: "processing_no_tracking" };
NoTrackingResult(order) ==
    ResultObj(Undefined, Null, Null, order, Str("processing_no_tracking"))

NotFoundResultNull == Null

\* return { logs, data: null, tracking_number: null, woo_order: null };
NotFoundResult == ResultObj(Undefined, Null, Null, Null, Undefined)

-----------------------------------------------------------------------------
(* tryResolveViaWooSearch: one running call, and what it does on each reply *)

\* kind and hits are history: the return statement the call ended at, and
\* whether the search it made came back with orders
StartProbe(term) ==
    [term |-> term, pc |-> "search", woo |-> Undefined, full |-> Undefined,
     tn |-> Undefined, result |-> Undefined, kind |-> "running", hits |-> "unknown"]

\* a settled call keeps its value alone: its local constants are gone
Fulfil(p, value, kind) ==
    [StartProbe(p.term) EXCEPT !.pc = "fulfilled", !.result = value, !.kind = kind,
                               !.hits = p.hits]
Reject(p) ==
    [StartProbe(p.term) EXCEPT !.pc = "rejected", !.kind = "error", !.hits = p.hits]

\* what the search reply held
Hits(reply) ==
    IF Failed(reply) THEN "unknown"
    ELSE IF reply.body.t = "list" /\ Len(reply.body.items) > 0 THEN "some"
    ELSE "none"

Settled(p) == p.pc \in {"fulfilled", "rejected"}

AfterSearchNoNullReturn(p, reply) ==
    LET r1 == wooFetchOrdersBySearch(reply)
        r2 == wooLookupBySearchTerm(r1.value)
        woo == r2.value
        q == [p EXCEPT !.hits = Hits(reply)]
    IN  IF r1.threw \/ r2.threw THEN Reject(q)
        ELSE IF ~Truthy(Prop(woo, "order_number"))
        THEN Fulfil(q, NoTrackingResult(Null), "resolved_no_tracking")
        ELSE IF Truthy(Prop(woo, "country")) /\ Prop(woo, "country") # Str("FR")
        THEN Fulfil(q, InternationalResult, "international")
        ELSE [q EXCEPT !.pc = "fetch", !.woo = woo]

\* server.js:185-189
AfterSearch(p, reply) ==
    LET r1 == wooFetchOrdersBySearch(reply)
        r2 == wooLookupBySearchTerm(r1.value)
        woo == r2.value
        q == [p EXCEPT !.hits = Hits(reply)]
    IN  IF r1.threw \/ r2.threw THEN Reject(q)
        ELSE IF ~Truthy(Prop(woo, "order_number"))
        THEN Fulfil(q, Null, "no_match")
        ELSE IF Truthy(Prop(woo, "country")) /\ Prop(woo, "country") # Str("FR")
        THEN Fulfil(q, InternationalResult, "international")
        ELSE [q EXCEPT !.pc = "fetch", !.woo = woo]

\* server.js:189-196
AfterFetch(p, reply) ==
    LET r == wooFetchOrderById(reply)
        t == Prop(p.woo, "tracking_number")
    IN  IF r.threw THEN Reject(p)
        ELSE IF ~Truthy(t) THEN [p EXCEPT !.pc = "parcel", !.full = r.value, !.tn = t]
        ELSE [p EXCEPT !.pc = "track", !.full = r.value, !.tn = t]

\* server.js:192-199
AfterParcel(p, reply) ==
    LET r == sendcloudFindParcelByOrderNumber(reply)
        t == pickTrackingNumberFromParcelsResponse(r.value)
    IN  IF r.threw THEN Reject(p)
        ELSE IF Truthy(t) THEN [p EXCEPT !.pc = "track", !.tn = t]
        ELSE Fulfil(p, NoTrackingResult(p.full), "resolved_no_tracking")

\* server.js:196-197
AfterTrack(p, reply) ==
    LET r == sendcloudTrackByTrackingNumber(reply)
    IN  IF r.threw THEN Reject(p)
        ELSE Fulfil(p, ResolvedResult(r.value, p.tn, p.full), "resolved")

-----------------------------------------------------------------------------
(* Adapter calls *)

SearchCall(step, term) == [step |-> step, api |-> "wooFetchOrdersBySearch", term |-> term]
ByIdCall(step, id) == [step |-> step, api |-> "wooFetchOrderById", id |-> id]
ParcelCall(step, id) ==
    [step |-> step, api |-> "sendcloudFindParcelByOrderNumber", order_number |-> id]
TrackCall(step, t) == [step |-> step, api |-> "sendcloudTrackByTrackingNumber", tn |-> t]

\* the call a probe issues on reaching its next await
ProbeCall(step, p) ==
    CASE p.pc = "fetch" -> {ByIdCall(step, Prop(p.woo, "order_number"))}
      [] p.pc = "parcel" -> {ParcelCall(step, Prop(p.woo, "order_number"))}
      [] p.pc = "track" -> {TrackCall(step, p.tn)}
      [] OTHER -> {}

-----------------------------------------------------------------------------
(* resolveTrackingLogic: how a segment of it ends *)

\* return value;
Finish(value, kind, step, ps, cs) ==
    /\ pc' = "done"
    /\ result' = value
    /\ thrown' = FALSE
    /\ outcome' = kind
    /\ exitStep' = step
    /\ probes' = ps
    /\ calls' = cs

\* an exception leaves the function: the promise it returned rejects
Raise(step, ps, cs) ==
    /\ pc' = "done"
    /\ result' = Undefined
    /\ thrown' = TRUE
    /\ outcome' = "error"
    /\ exitStep' = step
    /\ probes' = ps
    /\ calls' = cs

\* suspended at an await
Await(at, ps, cs) ==
    /\ pc' = at
    /\ UNCHANGED <<result, thrown, outcome, exitStep>>
    /\ probes' = ps
    /\ calls' = cs

\* server.js:167-175, entered
EnterTracking(ps, cs) ==
    IF Truthy(tracking_in)
    THEN Await("tracking", ps, cs \cup {TrackCall("tracking", tracking_in)})
    ELSE Finish(NotFoundResult, "not_found", "end", ps, cs)

\* server.js:147-165, entered: every candidate's search is issued at once
EnterPhone(ps, cs) ==
    IF Truthy(phone)
    THEN LET candidates == PhoneCandidates(phone.s)
         IN  Await("phone",
                   [i \in 1..Len(candidates) |-> StartProbe(Chars(candidates[i]))],
                   cs \cup {SearchCall("phone", Chars(candidates[i])) :
                               i \in 1..Len(candidates)})
    ELSE EnterTracking(ps, cs)

\* server.js:142-145, entered
EnterEmail(ps, cs) ==
    IF Truthy(email)
    THEN Await("email", <<StartProbe(email)>>, cs \cup {SearchCall("email", email)})
    ELSE EnterPhone(ps, cs)

\* the step of the chain the function is in
CurStep ==
    CASE pc \in {"order_fetch", "order_parcel", "order_track"} -> "order"
      [] pc = "email" -> "email"
      [] pc = "phone" -> "phone"
      [] pc = "tracking" -> "tracking"
      [] pc = "done" -> exitStep
      [] OTHER -> "start"

-----------------------------------------------------------------------------
(* results.find(r => r !== null), as the index of the element found (0: none) *)

FindLastValid(results) ==
    LET valid == {i \in 1..Len(results) : results[i] # Null}
    IN  IF valid = {} THEN 0 ELSE CHOOSE i \in valid : \A j \in valid : j <= i

FindValid(results) ==
    LET valid == {i \in 1..Len(results) : results[i] # Null}
    IN  IF valid = {} THEN 0 ELSE CHOOSE i \in valid : \A j \in valid : i <= j

\* server.js:143-144: const res = await tryResolveViaWooSearch(email, logs);
EmailSettle(np, ps, cs) ==
    IF np.pc = "rejected" THEN Raise("email", ps, cs)
    ELSE IF np.pc # "fulfilled" THEN Await("email", ps, cs)
    ELSE IF Truthy(np.result) THEN Finish(np.result, np.kind, "email", ps, cs)
    ELSE EnterPhone(ps, cs)

PhoneSettleNoReturn(np, ps, cs) ==
    IF np.pc = "rejected" THEN Raise("phone", ps, cs)
    ELSE IF \E j \in 1..Len(ps) : ps[j].pc # "fulfilled" THEN Await("phone", ps, cs)
    ELSE EnterTracking(ps, cs)

\* server.js:162-164: const results = await Promise.all(searchPromises);
\* Promise.all rejects with the first rejection and fulfils when all have
PhoneSettle(np, ps, cs) ==
    IF np.pc = "rejected" THEN Raise("phone", ps, cs)
    ELSE IF \E j \in 1..Len(ps) : ps[j].pc # "fulfilled" THEN Await("phone", ps, cs)
    ELSE LET results == [j \in 1..Len(ps) |-> ps[j].result]
             k == FindValid(results)
         IN  IF k # 0 /\ Truthy(results[k])
             THEN Finish(results[k], ps[k].kind, "phone", ps, cs)
             ELSE EnterTracking(ps, cs)

\* probe i moves to np; the function waiting on it reacts
Settle(i, np) ==
    LET ps == [probes EXCEPT ![i] = np]
        step == IF pc = "email" THEN "email" ELSE "phone"
        cs == calls \cup ProbeCall(step, np)
    IN  /\ CASE pc = "email" -> EmailSettle(np, ps, cs)
             [] pc = "phone" -> PhoneSettle(np, ps, cs)
             [] OTHER -> Await(pc, ps, cs)
        /\ firstDone' = IF pc = "phone" /\ Settled(np) /\ firstDone = 0
                        THEN i ELSE firstDone
        /\ UNCHANGED <<identifiers, wooOrder, parcels, tn, tracking, logs, call, hostVars>>

\* a failed reply on a call that is not part of the phone fan-out
NoteFailure(reply, sequential) ==
    seqFailure' = (seqFailure \/ (sequential /\ Failed(reply)))

\* nothing else is going on in the process
HostIdle ==
    /\ boot = [phase |-> "off"]
    /\ t17 = [pc |-> "off"]
    /\ analyze = [pc |-> "off"]
    /\ resolve = [pc |-> "off"]
    /\ chat = [phase |-> "off"]
    /\ other = [id |-> 0]

\* no pure helper is being exercised
NoCall == [fn |-> "none", arg |-> Undefined, out |-> Undefined, done |-> FALSE]

-----------------------------------------------------------------------------
(* Actions *)

Init ==
    /\ identifiers \in IdentifierSets
    /\ pc = "start"
    /\ wooOrder = Undefined
    /\ parcels = Undefined
    /\ tn = Undefined
    /\ tracking = Undefined
    /\ probes = <<>>
    /\ logs = <<>>
    /\ result = Undefined
    /\ thrown = FALSE
    /\ calls = {}
    /\ outcome = "running"
    /\ exitStep = "start"
    /\ firstDone = 0
    /\ seqFailure = FALSE
    /\ call = NoCall
    /\ HostIdle

\* server.js:124-131: from the call to the first await
Begin ==
    /\ pc = "start"
    /\ IF Truthy(order_number_in)
       THEN Await("order_fetch", <<>>, {ByIdCall("order", order_number_in)})
       ELSE EnterEmail(<<>>, {})
    /\ UNCHANGED <<identifiers, wooOrder, parcels, tn, tracking, logs, call, hostVars,
                   firstDone, seqFailure>>

\* server.js:131-134
OrderFetchReply ==
    /\ pc = "order_fetch"
    /\ \E reply \in ByIdReplies(order_number_in) :
        LET r == wooFetchOrderById(reply)
        IN  /\ NoteFailure(reply, TRUE)
            /\ IF r.threw
               THEN Raise("order", probes, calls) /\ UNCHANGED wooOrder
               ELSE /\ wooOrder' = r.value
                    /\ IF checkInternational(r.value)
                       THEN Finish(InternationalResult, "international", "order",
                                   probes, calls)
                       ELSE Await("order_parcel", probes,
                                  calls \cup {ParcelCall("order", order_number_in)})
    /\ UNCHANGED <<identifiers, parcels, tn, tracking, logs, call, hostVars, firstDone>>

\* server.js:134-140
OrderParcelReply ==
    /\ pc = "order_parcel"
    /\ \E reply \in ParcelReplies :
        LET r == sendcloudFindParcelByOrderNumber(reply)
            t == pickTrackingNumberFromParcelsResponse(r.value)
        IN  IF r.threw
            THEN Raise("order", probes, calls) /\ UNCHANGED <<wooOrder, parcels, tn>>
            ELSE IF Truthy(t)
            THEN /\ Await("order_track", probes, calls \cup {TrackCall("order", t)})
                 /\ parcels' = r.value
                 /\ tn' = t
                 /\ UNCHANGED wooOrder
            ELSE \* the block ends: its constants go out of scope
                 /\ EnterEmail(probes, calls)
                 /\ wooOrder' = Undefined
                 /\ parcels' = Undefined
                 /\ tn' = Undefined
    /\ UNCHANGED <<identifiers, tracking, logs, call, hostVars, firstDone, seqFailure>>

\* server.js:137-138
OrderTrackReply ==
    /\ pc = "order_track"
    /\ \E reply \in TrackReplies :
        LET r == sendcloudTrackByTrackingNumber(reply)
        IN  /\ NoteFailure(reply, TRUE)
            /\ IF r.threw
               THEN Raise("order", probes, calls) /\ UNCHANGED tracking
               ELSE /\ tracking' = r.value
                    /\ Finish(ResolvedResult(r.value, tn, wooOrder), "resolved", "order",
                              probes, calls)
    /\ UNCHANGED <<identifiers, wooOrder, parcels, tn, logs, call, hostVars, firstDone>>

\* server.js:185-188, for the email's call or one phone candidate's
ProbeSearchReply ==
    \E i \in 1..Len(probes) : \E reply \in SearchReplies :
        /\ probes[i].pc = "search"
        /\ NoteFailure(reply, pc = "email")
        /\ Settle(i, AfterSearch(probes[i], reply))

\* server.js:189-194
ProbeFetchReply ==
    \E i \in 1..Len(probes) :
        /\ probes[i].pc = "fetch"
        /\ \E reply \in ByIdReplies(Prop(probes[i].woo, "order_number")) :
            Settle(i, AfterFetch(probes[i], reply))
        /\ UNCHANGED seqFailure

\* server.js:192-199
ProbeParcelReply ==
    \E i \in 1..Len(probes) : \E reply \in ParcelReplies :
        /\ probes[i].pc = "parcel"
        /\ Settle(i, AfterParcel(probes[i], reply))
        /\ UNCHANGED seqFailure

\* server.js:196-197
ProbeTrackReply ==
    \E i \in 1..Len(probes) : \E reply \in TrackReplies :
        /\ probes[i].pc = "track"
        /\ NoteFailure(reply, pc = "email")
        /\ Settle(i, AfterTrack(probes[i], reply))

\* server.js:168-173
TrackingReply ==
    /\ pc = "tracking"
    /\ \E reply \in TrackReplies :
        LET r == sendcloudTrackByTrackingNumber(reply)
            destination == Prop(r.value, "destination")
        IN  /\ NoteFailure(reply, TRUE)
            /\ IF r.threw
               THEN Raise("tracking", probes, calls) /\ UNCHANGED tracking
               ELSE /\ tracking' = r.value
                    /\ IF Nullish(r.value)
                       THEN \* tracking.destination: TypeError
                            Raise("tracking", probes, calls)
                       ELSE IF /\ Truthy(destination)
                               /\ destination # Str("FR")
                               /\ destination # Str("FRANCE")
                       THEN Finish(InternationalResult, "international", "tracking",
                                   probes, calls)
                       ELSE Finish(ResolvedResult(r.value, tracking_in, Null),
                                   "resolved", "tracking", probes, calls)
    /\ UNCHANGED <<identifiers, wooOrder, parcels, tn, logs, call, hostVars, firstDone>>

Next ==
    \/ Begin
    \/ OrderFetchReply
    \/ OrderParcelReply
    \/ OrderTrackReply
    \/ ProbeSearchReply
    \/ ProbeFetchReply
    \/ ProbeParcelReply
    \/ ProbeTrackReply
    \/ TrackingReply

Spec == Init /\ [][Next]_vars

\* The same calls when an upstream may never answer: only the function's own
\* code is sure to run. fetch is called without a signal or a timeout
\* (server.js:461, 470, 493), so no step of the program ends a pending call.
LiveSpec == Init /\ [][Next]_vars /\ WF_vars(Begin)

-----------------------------------------------------------------------------
(* simplifyContext: what the response composer is given *)

\* a template literal `${head}${value}` with a fixed head
Template(head, value) == [t |-> "template", head |-> head, value |-> value]

\* `https://www.laposte.fr/outils/suivre-vos-envois?code=${trackingNumber}`
LaPosteLink(trackingNumber) ==
    Template("https://www.laposte.fr/outils/suivre-vos-envois?code=", trackingNumber)

\* s.carrier_message || s.status
EntryMessage(s) == OrElse(Prop(s, "carrier_message"), Prop(s, "status"))

\* s => ` - ${s.carrier_message || s.status}`
HistoryLine(s) == Template(" - ", EntryMessage(s))

\* items.slice(-n)
SliceLast(items, n) ==
    SubSeq(items, IF Len(items) > n THEN Len(items) - n + 1 ELSE 1, Len(items))

\* items.reverse()
Reverse(items) == [i \in 1..Len(items) |-> items[Len(items) + 1 - i]]

\* lines.join("\n")
Join(lines) ==
    IF Len(lines) = 0 THEN Str("")
    ELSE [t |-> "joined", sep |-> "\n", lines |-> lines]

\* the condition of the if at server.js:215
HasStatuses(statuses) ==
    /\ Truthy(statuses)
    /\ statuses.t = "list"
    /\ Len(statuses.items) > 0

\* server.js:216-217: null when the if is not taken
LastHistoryStatus(statuses) ==
    IF HasStatuses(statuses)
    THEN EntryMessage(statuses.items[Len(statuses.items)])
    ELSE Null

\* server.js:213, 218: the history array before it is joined
History(statuses) ==
    IF HasStatuses(statuses)
    THEN LET recent == SliceLast(statuses.items, 3)
         IN  Reverse([i \in 1..Len(recent) |-> HistoryLine(recent[i])])
    ELSE <<>>

\* reading a property of null or undefined is a TypeError: lastEntry at
\* server.js:217 and each of the last three entries at server.js:218
HistoryThrows(statuses) ==
    /\ HasStatuses(statuses)
    /\ \E i \in 1..Len(statuses.items) :
        /\ i > Len(statuses.items) - 3
        /\ Nullish(statuses.items[i])

\* server.js:203-208
FirstName(iaResult, resolutionResult) ==
    LET billingName ==
            Prop(Prop(Prop(resolutionResult, "woo_order"), "billing"), "first_name")
    IN  IF Truthy(billingName) THEN billingName
        ELSE IF Truthy(Prop(iaResult, "customer_first_name"))
        THEN Prop(iaResult, "customer_first_name")
        ELSE Str("Client")

TrackingLinkProviderFirst(trackingData, trackingNumber) ==
    OrElse(Prop(trackingData, "sendcloud_tracking_url"),
           OrElse(Prop(trackingData, "carrier_tracking_url"),
                  IF Truthy(trackingNumber) THEN LaPosteLink(trackingNumber)
                  ELSE Null))

\* server.js:211
TrackingLink(trackingData, trackingNumber) ==
    OrElse(Prop(trackingData, "carrier_tracking_url"),
           OrElse(Prop(trackingData, "sendcloud_tracking_url"),
                  IF Truthy(trackingNumber) THEN LaPosteLink(trackingNumber)
                  ELSE Null))

\* server.js:220
CurrentStatus(trackingData, lastHistoryStatus) ==
    OrElse(Prop(Prop(trackingData, "status"), "message"),
           OrElse(Prop(trackingData, "carrier_status"),
                  OrElse(lastHistoryStatus, Str("En cours de traitement"))))

\* server.js:202-222
simplifyContext(iaResult, resolutionResult) ==
    LET trackingData == Prop(resolutionResult, "data")
        trackingNumber == Prop(resolutionResult, "tracking_number")
        statuses == Prop(trackingData, "statuses")
    IN  IF HistoryThrows(statuses) THEN Throw
        ELSE Return(Obj([
            first_name |-> FirstName(iaResult, resolutionResult),
            tracking_number |-> trackingNumber,
            tracking_link |-> TrackingLink(trackingData, trackingNumber),
            current_status |-> CurrentStatus(trackingData, LastHistoryStatus(statuses)),
            history |-> Join(History(statuses)),
            is_found |-> Bool(Truthy(trackingNumber))]))

-----------------------------------------------------------------------------
(* The pure helpers, each called once on an argument drawn from a bounded set *)

\* the longest upstream status list considered
MaxStatuses == 4

\* one entry of trackingData.statuses, stamped with the time k of the event
StatusEntry(k, withCarrier) ==
    Obj([carrier_update_timestamp |-> Num(k),
         status |-> Str("status " \o ToString(k)),
         carrier_message |-> IF withCarrier THEN Str("carrier " \o ToString(k))
                             ELSE Undefined])

\* n events, listed oldest-first or newest-first; the events in carriers
\* have a carrier message
StatusList(n, newestFirst, carriers) ==
    List([i \in 1..n |->
            LET k == IF newestFirst THEN n + 1 - i ELSE i
            IN  StatusEntry(k, k \in carriers)])

\* trackingData.statuses: absent, not a list, a list of events, or a list
\* with an entry that is not an object inside or outside its last three
StatusesValues ==
    {Undefined, Null, Str("delivered")}
    \cup UNION {{StatusList(n, newestFirst, carriers) :
                    newestFirst \in BOOLEAN, carriers \in SUBSET (1..n)} :
                n \in 0..MaxStatuses}
    \cup {List(<<Null>>),
          List(<<StatusEntry(1, TRUE), Null, StatusEntry(3, TRUE)>>),
          List(<<Null, StatusEntry(2, TRUE), StatusEntry(3, FALSE),
                 StatusEntry(4, TRUE)>>)}

\* a GET /api/v2/tracking/... body as simplifyContext reads it
TrackingData(statuses, status, carrierStatus, carrierUrl, sendcloudUrl) ==
    Obj([destination |-> Str("FR"),
         statuses |-> statuses,
         status |-> status,
         carrier_status |-> carrierStatus,
         carrier_tracking_url |-> carrierUrl,
         sendcloud_tracking_url |-> sendcloudUrl])

TrackingDatas ==
    {TrackingData(statuses, status, carrierStatus, carrierUrl, sendcloudUrl) :
        statuses \in StatusesValues,
        status \in {Undefined, Obj([message |-> Str("Delivered")]),
                    Obj([message |-> Undefined])},
        carrierStatus \in {Undefined, Str("in_transit")},
        carrierUrl \in {Undefined, Str("https://carrier/T1")},
        sendcloudUrl \in {Undefined, Str("https://sendcloud/T1")}}

\* what resolveTrackingLogic hands to simplifyContext (server.js:252, 259)
Resolutions ==
    {ResolvedResult(data, Str("T1"), order) :
        data \in TrackingDatas, order \in {OrderFR, Null}}
    \cup {ResolvedResult(Null, Str("T1"), Null),
          NoTrackingResult(OrderFR), NoTrackingResult(OrderMeta), NotFoundResult}

\* what extractIdentifiers returned (server.js:251)
Extractions ==
    {Obj([customer_first_name |-> Str("Zoe")]), Obj([customer_first_name |-> Null])}

Called(fn, arg) == [fn |-> fn, arg |-> arg, out |-> Undefined, done |-> FALSE]

Done(out) == [call EXCEPT !.out = out, !.done = TRUE]

\* resolveTrackingLogic is not running
EngineIdle ==
    /\ identifiers = Undefined
    /\ pc = "idle"
    /\ wooOrder = Undefined
    /\ parcels = Undefined
    /\ tn = Undefined
    /\ tracking = Undefined
    /\ probes = <<>>
    /\ logs = <<>>
    /\ result = Undefined
    /\ thrown = FALSE
    /\ calls = {}
    /\ outcome = "running"
    /\ exitStep = "start"
    /\ firstDone = 0
    /\ seqFailure = FALSE

engineVars == <<identifiers, pc, wooOrder, parcels, tn, tracking, probes, logs,
                result, thrown, calls, outcome, exitStep, firstDone, seqFailure>>

\* the longest run of digits after the prefix of a raw phone
MaxBody == 10

DigitChars == <<"0", "1", "2", "3", "4", "5", "6", "7", "8", "9">>

\* k digits counting up from first
DigitRun(k, first) == [i \in 1..k |-> DigitChars[((first + i - 1) % 10) + 1]]

\* s with sep written after each of its characters
Separated(s, sep) ==
    [i \in 1..(2 * Len(s)) |-> IF i % 2 = 1 THEN s[(i + 1) \div 2] ELSE sep]

\* identifiers.phone as extracted from the screenshot: a local or
\* international prefix, a run of digits, written plain or with separators,
\* and strings without any digit
RawPhones ==
    LET prefixes == {<<>>, <<"0">>, <<"3", "3">>, <<"+", "3", "3">>,
                     <<"0", "0", "3", "3">>, <<"3", "2">>, <<"4", "1">>,
                     <<"4", "4">>}
        numbers == {prefix \o DigitRun(k, first) :
                        prefix \in prefixes, k \in 0..MaxBody, first \in 0..9}
    IN  numbers
        \cup {Separated(n, " ") : n \in numbers}
        \cup {Separated(n, ".") : n \in numbers}
        \cup {<<"-", "-", "-">>, <<"n", "/", "a">>}

\* server.js:147-161: the terms the phone step searches, in order
CallPhoneCandidates ==
    /\ call.fn = "PhoneCandidates"
    /\ ~call.done
    /\ LET candidates == IF Truthy(call.arg) THEN PhoneCandidates(call.arg.s)
                         ELSE <<>>
       IN  call' = Done(Return(List([i \in 1..Len(candidates) |->
                                        Chars(candidates[i])])))
    /\ UNCHANGED <<engineVars, hostVars>>

\* the values a country field takes
Countries == {Undefined, Null, Str(""), Str("FR"), Str("DE"), Str("BE")}

\* order records with every combination of shipping and billing country, and
\* records without a shipping or a billing address at all
GateOrders ==
    {Order(Str("1234"), shipCountry, billCountry, Str("Ana"), List(<<>>)) :
        shipCountry \in Countries, billCountry \in Countries}
    \cup {Obj([id |-> Str("1234"), billing |-> Obj([country |-> c])]) : c \in Countries}
    \cup {Obj([id |-> Str("1234"), shipping |-> Obj([country |-> c])]) : c \in Countries}

\* server.js:131-132: the gate of the order-number path
CallCheckInternational ==
    /\ call.fn = "checkInternational"
    /\ ~call.done
    /\ call' = Done(Return(Bool(checkInternational(call.arg))))
    /\ UNCHANGED <<engineVars, hostVars>>

\* server.js:185-187: the gate of the search path, on the orders the search
\* answered; the value is the return statement reached, "running" when the
\* call went on to fetch the order
CallSearchGate ==
    /\ call.fn = "tryResolveViaWooSearch"
    /\ ~call.done
    /\ LET p == AfterSearch(StartProbe(EMAIL), Http(TRUE, call.arg))
       IN  call' = Done(IF p.pc = "rejected" THEN Throw ELSE Return(Str(p.kind)))
    /\ UNCHANGED <<engineVars, hostVars>>

\* the values found under one list key of a parcels payload: absent, null,
\* not a list, empty, a null first entry, a first entry without tracking
\* number, and first entries with the direct field, the nested one, or both
KeyValues(direct, nested) ==
    {Undefined, Null, Str("none"), List(<<>>), List(<<Null>>),
     List(<<Parcel(Undefined, Undefined), Parcel(Str(direct), Undefined)>>),
     List(<<Parcel(Str(direct), Undefined)>>),
     List(<<Parcel(Undefined, Str(nested))>>),
     List(<<Parcel(Str(direct), Str(nested))>>)}

\* GET /api/v2/parcels?order_number=... bodies of every shape
PickPayloads ==
    {Null, Undefined, Str("error"), List(<<>>)}
    \cup {ParcelsBody(ps, rs, ds, p) :
            ps \in KeyValues("P1", "P2"), rs \in KeyValues("R1", "R2"),
            ds \in KeyValues("D1", "D2"),
            p \in {Undefined, Null, Parcel(Str("S1"), Undefined)}}

\* server.js:509: payload.parcel is the only read without ?. and it is
\* evaluated only when payload?.parcel is truthy
PickReadsNullish(payload) ==
    /\ Nullish(Prop(payload, "parcels"))
    /\ Nullish(Prop(payload, "results"))
    /\ Nullish(Prop(payload, "data"))
    /\ Truthy(Prop(payload, "parcel"))
    /\ Nullish(payload)

\* server.js:135, 193
CallPickTrackingNumber ==
    /\ call.fn = "pickTrackingNumberFromParcelsResponse"
    /\ ~call.done
    /\ call' = Done(IF PickReadsNullish(call.arg) THEN Throw
                    ELSE Return(pickTrackingNumberFromParcelsResponse(call.arg)))
    /\ UNCHANGED <<engineVars, hostVars>>

\* part_002:133-152, the standalone resolver's variant. The conditional
\* operator binds weaker than ||, so the expression reads
\* (parcels || results || data || parcel) ? [payload.parcel] : null.
\* String(...) of a string is that string.
pickTrackingNumberStandalone(payload) ==
    LET found == OrElse(Prop(payload, "parcels"),
                   OrElse(Prop(payload, "results"),
                     OrElse(Prop(payload, "data"), Prop(payload, "parcel"))))
        list == IF Truthy(found) THEN <<Prop(payload, "parcel")>> ELSE <<>>
    IN  IF Len(list) = 0 THEN Null
        ELSE LET first == list[1]
             IN  IF Truthy(Prop(first, "tracking_number"))
                 THEN Prop(first, "tracking_number")
                 ELSE IF Truthy(Prop(Prop(first, "tracking"), "tracking_number"))
                 THEN Prop(Prop(first, "tracking"), "tracking_number")
                 ELSE Null

\* part_002:176, 236
CallPickStandalone ==
    /\ call.fn = "part_002.pickTrackingNumberFromParcelsResponse"
    /\ ~call.done
    /\ call' = Done(Return(pickTrackingNumberStandalone(call.arg)))
    /\ UNCHANGED <<engineVars, hostVars>>

\* part_002:65-80. keys is TRACKING_META_KEYS split on "," and trimmed; the
\* empty segments are dropped here (.filter(Boolean)). The values used carry
\* no surrounding blanks, so String(v).trim() is v.
extractTrackingFromOrderMeta(keys, order) ==
    LET kept == SelectSeq(keys, LAMBDA k : k # "")
        md == Prop(order, "meta_data")
        meta == IF md.t = "list" THEN md.items ELSE <<>>
        KeyHits(k) == {i \in 1..Len(meta) :
                        /\ Prop(meta[i], "key") = Str(k)
                        /\ ~Nullish(Prop(meta[i], "value"))
                        /\ Prop(meta[i], "value") # Str("")}
        found == {n \in 1..Len(kept) : KeyHits(kept[n]) # {}}
    IN  IF found = {} THEN Null
        ELSE LET n == CHOOSE n \in found : \A m \in found : n <= m
                 i == CHOOSE i \in KeyHits(kept[n]) : \A j \in KeyHits(kept[n]) : i <= j
             IN  Prop(meta[i], "value")

\* server.js:479-486 and part_002:65-80 on the same order and the same value
\* of TRACKING_META_KEYS
CallTrackingMeta ==
    /\ call.fn = "TRACKING_META_KEYS"
    /\ ~call.done
    /\ LET keys == [i \in 1..Len(call.arg.items[1].items) |-> call.arg.items[1].items[i].s]
           order == call.arg.items[2]
       IN  call' = Done(Return(Obj(
                [server |-> MetaLoop(OrElse(Prop(order, "meta_data"), List(<<>>)).items,
                                     keys, Null),
                 standalone |-> extractTrackingFromOrderMeta(keys, order)])))
    /\ UNCHANGED <<engineVars, hostVars>>

\* server.js:259
CallSimplifyContext ==
    /\ call.fn = "simplifyContext"
    /\ ~call.done
    /\ call' = Done(simplifyContext(call.arg.items[1], call.arg.items[2]))
    /\ UNCHANGED <<engineVars, hostVars>>

PureInit ==
    /\ EngineIdle
    /\ HostIdle
    /\ \/ \E iaResult \in Extractions : \E resolutionResult \in Resolutions :
            call = Called("simplifyContext", List(<<iaResult, resolutionResult>>))
       \/ \E raw \in RawPhones : call = Called("PhoneCandidates", Chars(raw))
       \/ \E payload \in PickPayloads :
            call = Called("pickTrackingNumberFromParcelsResponse", payload)
       \/ \E payload \in PickPayloads :
            call = Called("part_002.pickTrackingNumberFromParcelsResponse", payload)
       \/ \E keys \in {<<"">>, <<"_tracking_number">>,
                       <<"_tracking_number", "_tracking_code">>,
                       <<"_tracking_code", "_tracking_number">>} :
          \E meta \in UNION {[1..n -> {Meta("_tracking_number", "M1"),
                                       Meta("_tracking_code", "M2"),
                                       Meta("_tracking_number", ""),
                                       Meta("", "M0")}] : n \in 0..2} :
            call = Called("TRACKING_META_KEYS",
                          List(<<List([i \in 1..Len(keys) |-> Str(keys[i])]),
                                 Order(Str("1234"), Str("FR"), Str("FR"), Str("Ana"),
                                       List(meta))>>))
       \/ \E order \in GateOrders \cup {Null, Undefined} :
            call = Called("checkInternational", order)
       \/ \E body \in {List(<<>>), Null} \cup {List(<<order>>) : order \in GateOrders} :
            call = Called("tryResolveViaWooSearch", body)

PureNext ==
    \/ CallSimplifyContext
    \/ CallPhoneCandidates
    \/ CallCheckInternational
    \/ CallPickTrackingNumber
    \/ CallPickStandalone
    \/ CallTrackingMeta
    \/ CallSearchGate

PureSpec == PureInit /\ [][PureNext]_vars

-----------------------------------------------------------------------------
(* Configuration: the environment variables and when they are read *)

\* the variables the clients read with requireEnv
RequiredEnv ==
    {"WC_BASE_URL", "WC_CONSUMER_KEY", "WC_CONSUMER_SECRET",
     "SENDCLOUD_PUBLIC_KEY", "SENDCLOUD_SECRET_KEY"}

\* server.js:18-22, on each name in turn: the first name that is missing
\* from env (unset or empty) is the one the Error thrown names, "none" if
\* every name has a value
requireEnv(env, names) ==
    IF \A i \in 1..Len(names) : names[i] \in env THEN "none"
    ELSE names[CHOOSE i \in 1..Len(names) :
                  names[i] \notin env /\ \A j \in 1..(i - 1) : names[j] \in env]

ConfigFrame == UNCHANGED <<engineVars, call, t17, analyze, resolve, chat, other>>

\* part_000:15-21: the only checks made before the server listens
Startup ==
    /\ boot.phase = "starting"
    /\ boot' = [boot EXCEPT !.phase = IF "OPENAI_API_KEY" \in boot.env
                                      THEN "serving" ELSE "exited"]
    /\ ConfigFrame

\* server.js:454-473: wooFetchOrdersBySearch or wooFetchOrderById, called
\* while serving a request, up to its fetch
CallWooClient ==
    /\ boot.phase = "serving"
    /\ \E fn \in {"wooFetchOrdersBySearch", "wooFetchOrderById"} :
        boot' = [boot EXCEPT
                    !.client = fn,
                    !.missing = requireEnv(boot.env, <<"WC_BASE_URL", "WC_CONSUMER_KEY",
                                                       "WC_CONSUMER_SECRET">>)]
    /\ ConfigFrame

\* server.js:490-493: sendcloudGet, called while serving a request, up to
\* its fetch
CallSendcloudGet ==
    /\ boot.phase = "serving"
    /\ boot' = [boot EXCEPT
                    !.client = "sendcloudGet",
                    !.missing = requireEnv(boot.env, <<"SENDCLOUD_PUBLIC_KEY",
                                                       "SENDCLOUD_SECRET_KEY">>)]
    /\ ConfigFrame

ConfigInit ==
    /\ EngineIdle
    /\ call = NoCall
    /\ t17 = [pc |-> "off"]
    /\ analyze = [pc |-> "off"]
    /\ resolve = [pc |-> "off"]
    /\ chat = [phase |-> "off"]
    /\ other = [id |-> 0]
    /\ \E env \in SUBSET (RequiredEnv \cup {"OPENAI_API_KEY", "TRACK17_KEY"}) :
        boot = [phase |-> "starting", env |-> env, client |-> "none", missing |-> "none"]

ConfigNext ==
    \/ Startup
    \/ CallWooClient
    \/ CallSendcloudGet

ConfigSpec == ConfigInit /\ [][ConfigNext]_vars

-----------------------------------------------------------------------------
(* Two resolveTrackingLogic calls in one process *)

\* server.js:123-129: the locals of the running call and what the model
\* remembers of it; every one is declared inside resolveTrackingLogic
Frame ==
    [identifiers |-> identifiers, pc |-> pc, wooOrder |-> wooOrder,
     parcels |-> parcels, tn |-> tn, tracking |-> tracking, probes |-> probes,
     logs |-> logs, result |-> result, thrown |-> thrown, calls |-> calls,
     outcome |-> outcome, exitStep |-> exitStep, firstDone |-> firstDone,
     seqFailure |-> seqFailure]

\* the running call takes up with the locals f
Resume(f) ==
    /\ identifiers' = f.identifiers
    /\ pc' = f.pc
    /\ wooOrder' = f.wooOrder
    /\ parcels' = f.parcels
    /\ tn' = f.tn
    /\ tracking' = f.tracking
    /\ probes' = f.probes
    /\ logs' = f.logs
    /\ result' = f.result
    /\ thrown' = f.thrown
    /\ calls' = f.calls
    /\ outcome' = f.outcome
    /\ exitStep' = f.exitStep
    /\ firstDone' = f.firstDone
    /\ seqFailure' = f.seqFailure

\* as Switch, were wooOrder one variable of the module that both calls assign
SwitchSharingOrder ==
    /\ other.id # 0
    /\ other' = [id |-> 3 - other.id, frame |-> Frame]
    /\ Resume([other.frame EXCEPT !.wooOrder = wooOrder])
    /\ UNCHANGED <<call, boot, t17, analyze, resolve, chat>>

\* Between two awaits the event loop runs the continuation of the other call:
\* the running call's locals are set aside and the other call's come back as
\* it left them.
Switch ==
    /\ other.id # 0
    /\ other' = [id |-> 3 - other.id, frame |-> Frame]
    /\ Resume(other.frame)
    /\ UNCHANGED <<call, boot, t17, analyze, resolve, chat>>

\* two requests, each with an order number, an email or a tracking number
ConcInit ==
    LET requests == {Identifiers(Undefined, Undefined, Str("1234"), Undefined),
                     Identifiers(Undefined, Undefined, Str("5678"), Undefined),
                     Identifiers(EMAIL, Undefined, Undefined, Undefined),
                     Identifiers(Undefined, Undefined, Undefined, Str("T0"))}
        fresh(ids) ==
            [identifiers |-> ids, pc |-> "start", wooOrder |-> Undefined,
             parcels |-> Undefined, tn |-> Undefined, tracking |-> Undefined,
             probes |-> <<>>, logs |-> <<>>, result |-> Undefined,
             thrown |-> FALSE, calls |-> {}, outcome |-> "running",
             exitStep |-> "start", firstDone |-> 0, seqFailure |-> FALSE]
    IN  /\ identifiers \in requests
        /\ pc = "start"
        /\ wooOrder = Undefined
        /\ parcels = Undefined
        /\ tn = Undefined
        /\ tracking = Undefined
        /\ probes = <<>>
        /\ logs = <<>>
        /\ result = Undefined
        /\ thrown = FALSE
        /\ calls = {}
        /\ outcome = "running"
        /\ exitStep = "start"
        /\ firstDone = 0
        /\ seqFailure = FALSE
        /\ \E ids \in requests : other = [id |-> 2, frame |-> fresh(ids)]
        /\ call = NoCall
        /\ boot = [phase |-> "off"]
        /\ t17 = [pc |-> "off"]
        /\ analyze = [pc |-> "off"]
        /\ resolve = [pc |-> "off"]
        /\ chat = [phase |-> "off"]

ConcNext ==
    \/ Next
    \/ Switch

ConcSpec == ConcInit /\ [][ConcNext]_vars

-----------------------------------------------------------------------------
(* The 17TRACK lookup: register, then gettrackinfo for a known number *)

MaxEvents == 2
MaxTime == 3

\* fetch rejects, or response.json() gives a body: an error without data, or
\* accepted and rejected entries. An accepted entry comes without track, or
\* with origin (z0) and destination (z1) events; the a of an event is its time
\* (the instant new Date(e.a) gives) and z its text. Code -18019901 is
\* register's rejection of a number that is already registered.
T17Replies ==
    LET Event(name, time) == Obj([a |-> Num(time), z |-> Str(name)])
        EventLists(names) ==
            UNION {{[i \in 1..n |-> Event(names[i], times[i])] :
                        times \in [1..n -> 1..MaxTime]} : n \in 0..MaxEvents}
        packages ==
            {Obj([recipientCountry |-> Str("DE")])}
                \cup {Obj([recipientCountry |-> Str("DE"),
                           track |-> Obj([z0 |-> List(o), z1 |-> List(d)])]) :
                        o \in EventLists(<<"o1", "o2", "o3", "o4">>),
                        d \in EventLists(<<"d1", "d2", "d3", "d4">>)}
        Rejection(code) == Obj([error |-> Obj([code |-> Num(code)])])
        bodies ==
            {Obj([code |-> Num(401)])}
                \cup {Obj([code |-> Num(0),
                           data |-> Obj([accepted |-> List(acc),
                                         rejected |-> List(rej)])]) :
                        acc \in {<<>>} \cup {<<p>> : p \in packages},
                        rej \in {<<>>, <<Rejection(-18019901)>>,
                                 <<Rejection(-18010012)>>,
                                 <<Rejection(-18010012), Rejection(-18019901)>>}}
    IN  {NetworkError} \cup {Http(TRUE, b) : b \in bodies}

\* body?.data?.accepted, as a sequence: empty when the property is missing
Accepted(body) ==
    LET l == Prop(Prop(body, "data"), "accepted")
    IN  IF l.t = "list" THEN l.items ELSE <<>>

AfterRegisterAnyRejection(route, body) ==
    LET l == Prop(Prop(body, "data"), "rejected")
    IN  IF Accepted(body) # <<>>
        THEN [next |-> "done", packageInfo |-> Accepted(body)[1]]
        ELSE IF route # "debug" /\ l.t = "list" /\ l.items # <<>>
        THEN [next |-> "gettrackinfo", packageInfo |-> Null]
        ELSE [next |-> "done", packageInfo |-> Null]

\* test-17track.js:25-57, server.js:853-860 and 341-359, part_000:373-380: what
\* the flow does with the body of register. The debug variant only logs a
\* rejection.
AfterRegister(route, body) ==
    LET l == Prop(Prop(body, "data"), "rejected")
    IN  IF Accepted(body) # <<>>
        THEN [next |-> "done", packageInfo |-> Accepted(body)[1]]
        ELSE IF /\ route # "debug"
                /\ l.t = "list" /\ l.items # <<>>
                /\ Prop(Prop(l.items[1], "error"), "code") = Num(-18019901)
        THEN [next |-> "gettrackinfo", packageInfo |-> Null]
        ELSE [next |-> "done", packageInfo |-> Null]

\* .sort((a, b) => new Date(b.a) - new Date(a.a)): newest first, and events of
\* the same time in the order they had (Array.prototype.sort is stable)
RECURSIVE SortNewestFirst(_)
SortNewestFirst(events) ==
    IF events = <<>> THEN <<>>
    ELSE LET n == Len(events)
             e == events[n]
             rest == SortNewestFirst(SubSeq(events, 1, n - 1))
             k == Cardinality({i \in 1..Len(rest) :
                                  Prop(rest[i], "a").n >= Prop(e, "a").n})
         IN  SubSeq(rest, 1, k) \o <<e>> \o SubSeq(rest, k + 1, Len(rest))

\* the history lines the route builds from the package it found, if any:
\* [...(track.z0 || []), ...(track.z1 || [])].sort(...).slice(0, limit), each
\* event e giving the line ` - ${e.a} : ${e.z}`
T17History(route, packageInfo) ==
    LET track == Prop(packageInfo, "track")
        z0 == OrElse(Prop(track, "z0"), List(<<>>)).items
        z1 == OrElse(Prop(track, "z1"), List(<<>>)).items
        sorted == SortNewestFirst(z0 \o z1)
        limit == IF route = "international" THEN 5 ELSE 3
        events == SubSeq(sorted, 1, IF Len(sorted) > limit THEN limit ELSE Len(sorted))
    IN  IF Truthy(packageInfo) /\ Truthy(track)
        THEN [i \in 1..Len(events) |->
                [t |-> "line", a |-> Prop(events[i], "a"), z |-> Prop(events[i], "z")]]
        ELSE <<>>

\* the flow ends: the data for the composer is prepared. The debug variant
\* reads trackInfo.z1 without testing info.track (server.js:344-345).
T17Finish(flow, packageInfo, source) ==
    t17' = [flow EXCEPT !.pc = "done", !.packageInfo = packageInfo,
                        !.source = IF packageInfo = Null THEN "none" ELSE source,
                        !.threw = /\ flow.route = "debug"
                                  /\ packageInfo # Null
                                  /\ ~Truthy(Prop(packageInfo, "track")),
                        !.history = T17History(flow.route, packageInfo)]

T17Frame == UNCHANGED <<engineVars, call, boot, analyze, resolve, chat, other>>

\* up to the first await: the register request is sent
T17Register ==
    /\ t17.pc = "start"
    /\ t17' = [t17 EXCEPT !.pc = "register", !.requests = <<"register">>]
    /\ T17Frame

T17RegisterReply ==
    /\ t17.pc = "register"
    /\ \E reply \in T17Replies :
        IF reply.kind = "network_error"
        THEN t17' = [t17 EXCEPT !.pc = "done", !.threw = TRUE]
        ELSE LET r == AfterRegister(t17.route, reply.body)
                 answered == [t17 EXCEPT !.reg = reply.body]
             IN  IF r.next = "gettrackinfo"
                 THEN t17' = [answered EXCEPT !.pc = "gettrackinfo",
                                              !.requests = Append(@, "gettrackinfo")]
                 ELSE T17Finish(answered, r.packageInfo, "register")
    /\ T17Frame

\* the body of gettrackinfo: its first accepted entry, if any, is the package
T17InfoReply ==
    /\ t17.pc = "gettrackinfo"
    /\ \E reply \in T17Replies :
        IF reply.kind = "network_error"
        THEN t17' = [t17 EXCEPT !.pc = "done", !.threw = TRUE]
        ELSE T17Finish([t17 EXCEPT !.info = reply.body],
                       IF Accepted(reply.body) # <<>> THEN Accepted(reply.body)[1] ELSE Null,
                       "gettrackinfo")
    /\ T17Frame

T17Init ==
    /\ EngineIdle
    /\ call = NoCall
    /\ boot = [phase |-> "off"]
    /\ analyze = [pc |-> "off"]
    /\ resolve = [pc |-> "off"]
    /\ chat = [phase |-> "off"]
    /\ other = [id |-> 0]
    /\ \E route \in {"test", "international", "respond", "debug"} :
        t17 = [pc |-> "start", route |-> route, requests |-> <<>>, reg |-> Undefined,
               info |-> Undefined, packageInfo |-> Null, source |-> "none",
               threw |-> FALSE, history |-> <<>>]

T17Next ==
    \/ T17Register
    \/ T17RegisterReply
    \/ T17InfoReply

T17Spec == T17Init /\ [][T17Next]_vars

-----------------------------------------------------------------------------
(* POST /sav/analyze: extraction, resolution, normalizer, composer *)

\* res.status(...).send(...): one more response on the wire, and the handler returns
AnalyzeSend(flow, status, body) ==
    analyze' = [flow EXCEPT !.pc = "done",
                            !.responses = Append(@, [status |-> status, body |-> body])]

\* the text of server.js:266, without its accents and its final emoji
Apology ==
    Str("Bonjour,\n\nUne erreur technique m'empeche de repondre. Pourriez-vous reformuler ?\n\nMerci,\nRobin")

\* server.js:263-267: the catch block
AnalyzeCatch(flow) ==
    AnalyzeSend(flow, 500, Apology)

AnalyzeFrame == UNCHANGED <<engineVars, call, boot, t17, resolve, chat, other>>

\* server.js:248-251: up to the await of extractIdentifiers
AnalyzeRequest ==
    /\ analyze.pc = "start"
    /\ IF ~analyze.file
       THEN AnalyzeSend(analyze, 400, Str("Erreur: Image manquante"))
       ELSE analyze' = [analyze EXCEPT !.pc = "extract"]
    /\ AnalyzeFrame

\* server.js:251-252: extractIdentifiers settles; resolveTrackingLogic is called
AnalyzeExtracted ==
    /\ analyze.pc = "extract"
    /\ \E out \in {Throw} \cup {Return(e) : e \in Extractions} :
        IF out.threw
        THEN AnalyzeCatch([analyze EXCEPT !.extracted = out])
        ELSE analyze' = [analyze EXCEPT !.pc = "resolve", !.extracted = out]
    /\ AnalyzeFrame

\* server.js:252-260: resolveTrackingLogic settles; up to the await of
\* draftResponseWithVision
AnalyzeResolved ==
    /\ analyze.pc = "resolve"
    /\ \E out \in {Throw, Return(InternationalResult)} \cup {Return(r) : r \in Resolutions} :
        LET flow == [analyze EXCEPT !.resolution = out]
            context == simplifyContext(analyze.extracted.value, out.value)
        IN  IF out.threw THEN AnalyzeCatch(flow)
            ELSE IF Truthy(Prop(out.value, "isInternational"))
            THEN AnalyzeSend(flow, 200, Str("international"))
            ELSE IF context.threw
            THEN AnalyzeCatch([flow EXCEPT !.context = context])
            ELSE analyze' = [flow EXCEPT !.pc = "compose", !.context = context]
    /\ AnalyzeFrame

\* server.js:260-262: draftResponseWithVision settles
AnalyzeComposed ==
    /\ analyze.pc = "compose"
    /\ \E out \in {Throw, Return(Str("Bonjour Ana, ..."))} :
        IF out.threw
        THEN AnalyzeCatch([analyze EXCEPT !.composed = out])
        ELSE AnalyzeSend([analyze EXCEPT !.composed = out], 200, out.value)
    /\ AnalyzeFrame

\* a request with or without an image; None marks a function that was not called
AnalyzeInit ==
    LET None == [threw |-> FALSE, value |-> Str("(not called)")]
    IN  /\ EngineIdle
        /\ call = NoCall
        /\ boot = [phase |-> "off"]
        /\ t17 = [pc |-> "off"]
        /\ resolve = [pc |-> "off"]
        /\ chat = [phase |-> "off"]
        /\ other = [id |-> 0]
        /\ \E file \in BOOLEAN :
            analyze = [pc |-> "start", file |-> file, extracted |-> None,
                       resolution |-> None, context |-> None, composed |-> None,
                       responses |-> <<>>]

AnalyzeNext ==
    \/ AnalyzeRequest
    \/ AnalyzeExtracted
    \/ AnalyzeResolved
    \/ AnalyzeComposed

AnalyzeSpec == AnalyzeInit /\ [][AnalyzeNext]_vars

-----------------------------------------------------------------------------
(* The chat tickets: /chat/start, processGPTRequest, /chat/check *)

MaxRequests == 2
MaxClock == 2

\* tasks[ticketId] = task. A ticket id "ticket_" + Date.now() is written as the
\* clock value it was made from: the prefix is fixed.
SetTask(tasks, ticketId, task) ==
    [i \in DOMAIN tasks \cup {ticketId} |-> IF i = ticketId THEN task ELSE tasks[i]]

ChatFrame == UNCHANGED <<engineVars, call, boot, t17, analyze, resolve, other>>

\* as ChatStart, were processGPTRequest called without its .catch
ChatStartUncaught ==
    /\ chat.phase = "serving"
    /\ Len(chat.jobs) < MaxRequests
    /\ \E isNewThread \in BOOLEAN : \E unlinkFails \in BOOLEAN :
        LET n == Len(chat.jobs) + 1
            ticketId == chat.clock
            pending == SetTask(chat.tasks, ticketId, [status |-> "pending", result |-> Null])
            deletes == isNewThread /\ chat.file.exists
            loaded == IF deletes \/ ~chat.file.exists THEN <<>> ELSE chat.file.content
            conversation == Append(loaded, [role |-> "user", request |-> n])
        IN  IF deletes /\ unlinkFails
            THEN chat' = [chat EXCEPT
                    !.tasks = pending,
                    !.jobs = Append(@, [ticket |-> ticketId, pc |-> "rejected",
                                        fresh |-> ticketId \notin DOMAIN chat.tasks,
                                        isNewThread |-> isNewThread,
                                        conversation |-> <<>>])]
            ELSE chat' = [chat EXCEPT
                    !.tasks = pending,
                    !.file = IF deletes THEN [exists |-> FALSE, content |-> <<>>] ELSE @,
                    !.jobs = Append(@, [ticket |-> ticketId, pc |-> "model",
                                        fresh |-> ticketId \notin DOMAIN chat.tasks,
                                        isNewThread |-> isNewThread,
                                        conversation |-> conversation])]
    /\ ChatFrame

\* part_000:600-617 with the part of processGPTRequest that runs before its
\* first await (part_000:621-657): the ticket is made from the clock, set to
\* pending and answered; the history file is deleted or read and the user
\* message added. When that part throws (unlinkSync on a file that cannot be
\* removed), the promise is rejected and the catch of part_000:614-617 runs
\* before any other request is served. fresh remembers whether the task map
\* held no entry under the new id.
ChatStart ==
    /\ chat.phase = "serving"
    /\ Len(chat.jobs) < MaxRequests
    /\ \E isNewThread \in BOOLEAN : \E unlinkFails \in BOOLEAN :
        LET n == Len(chat.jobs) + 1
            ticketId == chat.clock
            pending == SetTask(chat.tasks, ticketId, [status |-> "pending", result |-> Null])
            deletes == isNewThread /\ chat.file.exists
            loaded == IF deletes \/ ~chat.file.exists THEN <<>> ELSE chat.file.content
            conversation == Append(loaded, [role |-> "user", request |-> n])
        IN  IF deletes /\ unlinkFails
            THEN chat' = [chat EXCEPT
                    !.tasks = SetTask(pending, ticketId,
                                      [status |-> "error", result |-> Str("Erreur interne.")]),
                    !.jobs = Append(@, [ticket |-> ticketId, pc |-> "rejected",
                                        fresh |-> ticketId \notin DOMAIN chat.tasks,
                                        isNewThread |-> isNewThread,
                                        conversation |-> <<>>])]
            ELSE chat' = [chat EXCEPT
                    !.tasks = pending,
                    !.file = IF deletes THEN [exists |-> FALSE, content |-> <<>>] ELSE @,
                    !.jobs = Append(@, [ticket |-> ticketId, pc |-> "model",
                                        fresh |-> ticketId \notin DOMAIN chat.tasks,
                                        isNewThread |-> isNewThread,
                                        conversation |-> conversation])]
    /\ ChatFrame

\* Date.now() moves on
ChatTick ==
    /\ chat.phase = "serving"
    /\ chat.clock < MaxClock
    /\ chat' = [chat EXCEPT !.clock = @ + 1]
    /\ ChatFrame

\* part_000:659-681: openai.responses.create settles for one background task
ChatModelReply ==
    /\ chat.phase = "serving"
    /\ \E j \in 1..Len(chat.jobs) : \E answers \in BOOLEAN :
        LET job == chat.jobs[j]
            conversation == Append(job.conversation, [role |-> "assistant", request |-> j])
        IN  /\ job.pc = "model"
            /\ IF answers
               THEN chat' = [chat EXCEPT
                        !.file = [exists |-> TRUE, content |-> conversation],
                        !.tasks = SetTask(@, job.ticket,
                                          [status |-> "done", result |-> Num(j)]),
                        !.jobs[j] = [job EXCEPT !.pc = "done",
                                                !.conversation = conversation]]
               ELSE chat' = [chat EXCEPT
                        !.tasks = SetTask(@, job.ticket,
                                          [status |-> "error", result |-> Str("e.message")]),
                        !.jobs[j] = [job EXCEPT !.pc = "failed"]]
    /\ ChatFrame

\* part_000:687-706. last describes the request just served: what it found,
\* what it answered and whether an earlier check had already returned the
\* result of this ticket.
ChatCheck ==
    /\ chat.phase = "serving"
    /\ \E ticketId \in 0..MaxClock :
        LET known == ticketId \in DOMAIN chat.tasks
            status == IF known THEN chat.tasks[ticketId].status ELSE "none"
            removes == status \in {"done", "error"}
            answer ==
                IF ~known THEN [status |-> "error", message |-> Str("Ticket introuvable")]
                ELSE IF status = "done"
                THEN [status |-> "done", reply |-> chat.tasks[ticketId].result]
                ELSE IF status = "error"
                THEN [status |-> "error", message |-> chat.tasks[ticketId].result]
                ELSE [status |-> "pending"]
        IN  chat' = [chat EXCEPT
                !.tasks = IF removes
                          THEN [i \in DOMAIN chat.tasks \ {ticketId} |-> chat.tasks[i]]
                          ELSE @,
                !.collected = IF removes THEN @ \cup {ticketId} ELSE @,
                !.last = [ticket |-> ticketId, found |-> status, answer |-> answer,
                          collected |-> ticketId \in chat.collected,
                          before |-> chat.tasks]]
    /\ ChatFrame

ChatInit ==
    /\ EngineIdle
    /\ call = NoCall
    /\ boot = [phase |-> "off"]
    /\ t17 = [pc |-> "off"]
    /\ analyze = [pc |-> "off"]
    /\ resolve = [pc |-> "off"]
    /\ other = [id |-> 0]
    /\ chat = [phase |-> "serving", clock |-> 1, tasks |-> <<>>, jobs |-> <<>>,
               file |-> [exists |-> FALSE, content |-> <<>>], collected |-> {},
               last |-> [ticket |-> 0, found |-> "none", answer |-> [status |-> "none"],
                         collected |-> FALSE, before |-> <<>>]]

ChatNext ==
    \/ ChatStart
    \/ ChatTick
    \/ ChatModelReply
    \/ ChatCheck

ChatSpec == ChatInit /\ [][ChatNext]_vars

\* The same, when every model call that was started returns or throws
ChatLiveSpec == ChatInit /\ [][ChatNext]_vars /\ WF_vars(ChatModelReply)

-----------------------------------------------------------------------------
(* POST /sav/resolve of the standalone resolver *)

\* res.json(...) or jsonError(...): the response, and the handler returns
ResolveSend(flow, status, ok, path, tnum) ==
    resolve' = [flow EXCEPT !.pc = "done",
                            !.responses = Append(@, [status |-> status, ok |-> ok,
                                                     path |-> path,
                                                     tracking_number |-> tnum])]

\* the handler reaches an await: the adapter call is issued
ResolveAwait(flow, next, api, arg) ==
    resolve' = [flow EXCEPT !.pc = next, !.requests = Append(@, [api |-> api, arg |-> arg])]

ResolveFrame == UNCHANGED <<engineVars, call, boot, t17, analyze, chat, other>>

ResolveRequestOrderFirst ==
    /\ resolve.pc = "start"
    /\ LET extracted == resolve.extracted
           mail == Coalesce(Prop(Prop(extracted, "customer"), "email"), Null)
           orderNumber == Coalesce(Prop(Prop(extracted, "order"), "order_number"), Null)
           trackingNumber == Coalesce(Prop(Prop(extracted, "shipment"), "tracking_number"), Null)
       IN  IF ~Truthy(extracted) THEN ResolveSend(resolve, 400, FALSE, "none", Null)
           ELSE IF Truthy(orderNumber)
           THEN ResolveAwait(resolve, "order_parcels", "sendcloudFindParcelByOrderNumber",
                             orderNumber)
           ELSE IF Truthy(trackingNumber)
           THEN ResolveAwait(resolve, "tracking", "sendcloudTrackByTrackingNumber", trackingNumber)
           ELSE IF Truthy(mail)
           THEN ResolveAwait(resolve, "email_woo", "wooLookupByEmail", mail)
           ELSE ResolveSend(resolve, 200, TRUE, "no_identifiers", Null)
    /\ ResolveFrame

\* part_002:202-213, 217-218, 228-229, 276: from the request to the first await
ResolveRequest ==
    /\ resolve.pc = "start"
    /\ LET extracted == resolve.extracted
           mail == Coalesce(Prop(Prop(extracted, "customer"), "email"), Null)
           orderNumber == Coalesce(Prop(Prop(extracted, "order"), "order_number"), Null)
           trackingNumber == Coalesce(Prop(Prop(extracted, "shipment"), "tracking_number"), Null)
       IN  IF ~Truthy(extracted) THEN ResolveSend(resolve, 400, FALSE, "none", Null)
           ELSE IF Truthy(trackingNumber)
           THEN ResolveAwait(resolve, "tracking", "sendcloudTrackByTrackingNumber", trackingNumber)
           ELSE IF Truthy(orderNumber)
           THEN ResolveAwait(resolve, "order_parcels", "sendcloudFindParcelByOrderNumber",
                             orderNumber)
           ELSE IF Truthy(mail)
           THEN ResolveAwait(resolve, "email_woo", "wooLookupByEmail", mail)
           ELSE ResolveSend(resolve, 200, TRUE, "no_identifiers", Null)
    /\ ResolveFrame

\* part_002:213-279: the awaited adapter call settles. sendcloudGet and
\* wooFetchOrdersLatest throw on a failing fetch and on a status that is not
\* ok (part_002:49-52, 113-116); the catch answers 500.
ResolveReply ==
    /\ resolve.pc \notin {"off", "start", "done"}
    /\ \E out \in {Throw}
            \cup (IF resolve.pc = "email_woo"
                  THEN {Return(Obj([order_number |-> n, tracking_number |-> t])) :
                            n \in {Null, Str("1234")}, t \in {Null, Str("M1")}}
                  ELSE IF resolve.pc \in {"order_parcels", "email_parcels"}
                  THEN {Return(b) : b \in ParcelPayloads
                            \cup {ParcelsBody(Undefined, Undefined, Undefined,
                                              Parcel(Str("S1"), Undefined)),
                                  ParcelsBody(List(<<>>), Undefined, Undefined,
                                              Parcel(Undefined, Str("S2")))}}
                  ELSE {Return(b) : b \in TrackingPayloads}) :
        LET flow == [resolve EXCEPT !.replies = Append(@, out)]
            picked == pickTrackingNumberStandalone(out.value)
            woo == out.value
        IN  IF out.threw THEN ResolveSend(flow, 500, FALSE, "none", Null)
            ELSE CASE resolve.pc = "tracking" ->
                        ResolveSend(flow, 200, TRUE, "tracking_number",
                                    resolve.requests[1].arg)
                   [] resolve.pc = "order_parcels" ->
                        IF ~Truthy(picked)
                        THEN ResolveSend(flow, 200, TRUE, "order_number_no_tracking", Null)
                        ELSE ResolveAwait(flow, "order_track",
                                          "sendcloudTrackByTrackingNumber", picked)
                   [] resolve.pc = "order_track" ->
                        ResolveSend(flow, 200, TRUE, "order_number",
                                    resolve.requests[2].arg)
                   [] resolve.pc = "email_woo" ->
                        IF Truthy(Prop(woo, "tracking_number"))
                        THEN ResolveAwait(flow, "email_woo_track",
                                          "sendcloudTrackByTrackingNumber",
                                          Prop(woo, "tracking_number"))
                        ELSE IF Truthy(Prop(woo, "order_number"))
                        THEN ResolveAwait(flow, "email_parcels",
                                          "sendcloudFindParcelByOrderNumber",
                                          Prop(woo, "order_number"))
                        ELSE ResolveSend(flow, 200, TRUE, "email_no_order_found", Null)
                   [] resolve.pc = "email_woo_track" ->
                        ResolveSend(flow, 200, TRUE, "email->woo(tracking)",
                                    resolve.requests[2].arg)
                   [] resolve.pc = "email_parcels" ->
                        IF ~Truthy(picked)
                        THEN ResolveSend(flow, 200, TRUE,
                                         "email->woo(order)->sendcloud(no_tracking)", Null)
                        ELSE ResolveAwait(flow, "email_track",
                                          "sendcloudTrackByTrackingNumber", picked)
                   [] resolve.pc = "email_track" ->
                        ResolveSend(flow, 200, TRUE,
                                    "email->woo(order)->sendcloud->tracking",
                                    resolve.requests[3].arg)
    /\ ResolveFrame

\* a request without extracted, or with any of the three identifiers, absent,
\* empty or given
ResolveInit ==
    /\ EngineIdle
    /\ call = NoCall
    /\ boot = [phase |-> "off"]
    /\ t17 = [pc |-> "off"]
    /\ analyze = [pc |-> "off"]
    /\ chat = [phase |-> "off"]
    /\ other = [id |-> 0]
    /\ \E extracted \in {Undefined}
            \cup {Obj([customer |-> Obj([email |-> e]),
                       order |-> Obj([order_number |-> n]),
                       shipment |-> Obj([tracking_number |-> t])]) :
                    e \in {Undefined, Str(""), Str("a@b")}, n \in {Null, Str("1234")},
                    t \in {Null, Str(""), Str("T0")}} :
        resolve = [pc |-> "start", extracted |-> extracted, requests |-> <<>>,
                   replies |-> <<>>, responses |-> <<>>]

ResolveNext ==
    \/ ResolveRequest
    \/ ResolveReply

ResolveSpec == ResolveInit /\ [][ResolveNext]_vars

-----------------------------------------------------------------------------
(* Properties *)

Returned == pc = "done" /\ ~thrown

SendcloudApis == {"sendcloudFindParcelByOrderNumber", "sendcloudTrackByTrackingNumber"}

StepCalls(step) == {c \in calls : c.step = step}

\* the country of an order record: the shipping country, else the billing one
OrderCountry(order) ==
    OrElse(Prop(Prop(order, "shipping"), "country"),
           Prop(Prop(order, "billing"), "country"))

\* the object the chain returns when nothing was found, field by field
IsNotFound(r) ==
    /\ r.t = "obj"
    /\ Prop(r, "tracking_number") = Null
    /\ Prop(r, "data") = Null
    /\ Prop(r, "woo_order") = Null
    /\ Prop(r, "status") = Undefined
    /\ ~Truthy(Prop(r, "isInternational"))

\* C1: in the phone step every candidate is probed and the choice is made once
\* all probes have completed; when no probe failed, the value returned is the
\* one of the earliest candidate, in generation order, whose probe returned
\* non-null, whatever order the probes completed in.
C1_GenerationOrderWins ==
    /\ pc = "phone" \/ (pc = "done" /\ exitStep = "phone") =>
          /\ Len(probes) = Len(PhoneCandidates(phone.s))
          /\ \A i \in 1..Len(probes) :
                /\ probes[i].term = Chars(PhoneCandidates(phone.s)[i])
                /\ SearchCall("phone", probes[i].term) \in calls
    /\ (/\ pc = "done"
        /\ exitStep = "phone"
        /\ \A i \in 1..Len(probes) : probes[i].pc # "rejected") =>
          /\ ~thrown
          /\ \A i \in 1..Len(probes) : probes[i].pc = "fulfilled"
          /\ \E k \in 1..Len(probes) :
                /\ probes[k].result # Null
                /\ \A j \in 1..(k - 1) : probes[j].result = Null
                /\ result = probes[k].result
    /\ (Truthy(phone) /\ CurStep \in {"tracking", "end"}) =>
          \A i \in 1..Len(probes) :
              probes[i].pc = "fulfilled" /\ probes[i].result = Null

\* candidates #1 and #3 matched different orders, #2 matched nothing, #3
\* completed first, and the value returned is #1's
C1_Witness ==
    /\ Returned
    /\ exitStep = "phone"
    /\ Len(probes) = 3
    /\ probes[2].result = Null
    /\ probes[1].kind = "resolved"
    /\ probes[3].kind = "resolved"
    /\ Prop(probes[1].result, "woo_order") = OrderFR
    /\ Prop(probes[3].result, "woo_order") = OrderMeta
    /\ firstDone = 3
    /\ result = probes[1].result

\* C2: a transport or HTTP failure inside one phone candidate's probe does not
\* abort the resolution: the phone step never ends the call with an exception.
C2_ProbeFailureIsolated ==
    (pc = "done" /\ exitStep = "phone") => ~thrown

\* C3: with an order number present and the order fetched by id in a country
\* that is present and not FR, the call ends international and no parcel
\* lookup and no tracking fetch is issued, whatever else is present.
C3_InternationalShortCircuit ==
    (/\ Truthy(order_number_in)
     /\ Truthy(wooOrder)
     /\ Truthy(OrderCountry(wooOrder))
     /\ OrderCountry(wooOrder) # Str("FR")) =>
        /\ Returned
        /\ Prop(result, "isInternational") = Bool(TRUE)
        /\ \A c \in calls : c.api \notin SendcloudApis

\* the order fetched is shipped to DE and email, phone and tracking number
\* were all present
C3_Witness ==
    /\ pc = "done"
    /\ identifiers = Identifiers(EMAIL, PHONE, Str("5678"), Str("T0"))
    /\ wooOrder = OrderDE
    /\ Prop(result, "isInternational") = Bool(TRUE)
    /\ calls = {ByIdCall("order", Str("5678"))}

\* C4: when any phone candidate's top match is international, the call ends
\* international, also when an earlier candidate resolved a domestic order.
C4_InternationalProbeWins ==
    (/\ Returned
     /\ exitStep \in {"email", "phone"}
     /\ \E i \in 1..Len(probes) : probes[i].kind = "international") =>
        Prop(result, "isInternational") = Bool(TRUE)

StepRank(step) ==
    CASE step = "start" -> 0
      [] step = "order" -> 1
      [] step = "email" -> 2
      [] step = "phone" -> 3
      [] step = "tracking" -> 4
      [] OTHER -> 5

\* no call belongs to a later step than the one the chain is in, and a later
\* step has calls only when every earlier step ended without a value
C5_CallsFollowTheChain ==
    /\ \A c \in calls : StepRank(c.step) <= StepRank(CurStep)
    /\ (Truthy(order_number_in) /\ \E c \in calls : StepRank(c.step) > 1) =>
          /\ ParcelCall("order", order_number_in) \in calls
          /\ \A c \in StepCalls("order") : c.api # "sendcloudTrackByTrackingNumber"
    /\ (Truthy(email) /\ \E c \in calls : StepRank(c.step) > 2) =>
          StepCalls("email") = {SearchCall("email", email)}
    /\ (\E c \in calls : c.step = "tracking") =>
          /\ \A i \in 1..Len(probes) :
                probes[i].pc = "fulfilled" /\ probes[i].result = Null
          /\ pc = "tracking" \/ (pc = "done" /\ exitStep = "tracking")

\* the chain only moves forward, a call is issued by the step the chain is in,
\* and nothing is issued once a value was returned
C5_StepsOnlyAdvance ==
    /\ StepRank(CurStep') >= StepRank(CurStep)
    /\ \A c \in calls' \ calls : c.step = CurStep'
    /\ Returned => calls' = calls
    /\ pc = "done" => pc' = "done" /\ exitStep' = exitStep /\ result' = result

\* C5: the chain walks order number, email, phone, tracking number in that
\* order; a step's calls start only after the previous step ended without
\* terminating the chain, and once a step terminated it no later step's call
\* is issued; the direct tracking fetch happens only when none of the three
\* earlier steps terminated.
C5_ChainOrder == []C5_CallsFollowTheChain /\ [][C5_StepsOnlyAdvance]_vars

\* all four steps ran and the chain ended on the direct tracking fetch
C5_Witness ==
    /\ Returned
    /\ exitStep = "tracking"
    /\ \A s \in {"order", "email", "phone", "tracking"} : StepCalls(s) # {}

\* C6: a failed upstream call (connection failure or non-2xx) on a sequential
\* single-shot step ends the resolution in an error.
C6_SequentialFailureIsError ==
    seqFailure => (pc = "done" /\ thrown)

AllAbsent ==
    Nullish(email) /\ Nullish(phone) /\ Nullish(order_number_in) /\ Nullish(tracking_in)

\* C7: with every identifier absent the call issues no adapter call, raises
\* nothing and returns the not-found value, whose tracking_number is null.
C7_EmptyIdentifiers ==
    (AllAbsent /\ pc # "start") =>
        /\ Returned
        /\ calls = {}
        /\ IsNotFound(result)

\* the empty object {} was resolved
C7_Witness ==
    /\ identifiers = Identifiers(Undefined, Undefined, Undefined, Undefined)
    /\ Returned
    /\ Prop(result, "tracking_number") = Null

\* the order-number step returned a value with tracking data
OrderStepResolved ==
    /\ Returned
    /\ exitStep = "order"
    /\ Truthy(wooOrder)
    /\ OrderCountry(wooOrder) = Str("FR")
    /\ Truthy(pickTrackingNumberFromParcelsResponse(parcels))

OnlyEmail ==
    Truthy(email) /\ Nullish(phone) /\ Nullish(order_number_in) /\ Nullish(tracking_in)

\* C9: with only an email present and a search that returns no orders, the
\* search-resolve call returns null without raising, no order fetch, parcel
\* lookup or tracking fetch is issued, and the not-found value is returned.
C9_EmptySearch ==
    (/\ OnlyEmail
     /\ Len(probes) = 1
     /\ probes[1].hits = "none") =>
        /\ probes[1].pc = "fulfilled"
        /\ probes[1].result = Null
        /\ Returned
        /\ calls = {SearchCall("email", email)}
        /\ IsNotFound(result)

\* the search for a@b came back with an empty list
C9_Witness ==
    /\ identifiers = Identifiers(EMAIL, Undefined, Undefined, Undefined)
    /\ pc = "done"
    /\ probes[1].hits = "none"
    /\ IsNotFound(result)

\* what a caller reads off the settled promise
Classify ==
    IF thrown THEN "error"
    ELSE IF Truthy(Prop(result, "isInternational")) THEN "international"
    ELSE IF Prop(result, "status") = Str("processing_no_tracking")
    THEN "resolved_no_tracking"
    ELSE IF Truthy(Prop(result, "tracking_number")) THEN "resolved"
    ELSE "not_found"

\* C10: the value returned or the failure raised tells the five outcomes
\* apart; an order found by search with no tracking number anywhere gives a
\* non-null value flagged as such, different from the not-found value.
C10_OutcomesDistinguishable ==
    pc = "done" =>
        /\ Classify = outcome
        /\ outcome = "resolved_no_tracking" =>
              /\ result # Null
              /\ ~IsNotFound(result)

\* found by search, no tracking number, and the order could not be fetched
\* by id: only the flag tells this value from the not-found one
C10_Witness ==
    /\ Returned
    /\ outcome = "resolved_no_tracking"
    /\ Prop(result, "woo_order") = Null
    /\ Prop(result, "tracking_number") = Null

\* C11: every transition of the resolution chain appends one line to the
\* trace, so the trace attached to the result of a resolution that attempted
\* at least one step (issued at least one adapter call) is non-empty.
C11_TraceRecordsEveryStep ==
    (Returned /\ calls # {}) =>
        /\ Len(logs) > 0
        /\ Prop(result, "logs") = List(logs)

\* C15: the engine never calls the order search with an empty term: when the
\* digits-only form of the phone is empty no candidate is generated, so no
\* search with the term "" or with a bare prefix "+" or "00" is issued.
C15_NoEmptySearchTerm ==
    \A c \in calls :
        c.api = "wooFetchOrdersBySearch" =>
            c.term.s \notin {<<>>, <<"+">>, <<"0", "0">>}

\* the tracking-number step fetched a payload (the fetch itself answered)
TrackingFetched == pc = "done" /\ exitStep = "tracking" /\ tracking # Undefined

\* the destination country of the payload is present and not the home country
ForeignDestination(payload) ==
    LET destination == Prop(payload, "destination")
    IN  Truthy(destination) /\ destination \notin {Str("FR"), Str("FRANCE")}

\* C17: on the tracking-number fallback step, once the payload is fetched: if
\* its destination country is present and international the result is
\* international and carries no tracking data; otherwise the result is
\* resolved with the input tracking number, the fetched payload and no order.
C17_TrackingFallback ==
    TrackingFetched =>
        /\ Returned
        /\ IF ForeignDestination(tracking)
           THEN /\ Prop(result, "isInternational") = Bool(TRUE)
                /\ Prop(result, "data") = Undefined
           ELSE /\ Prop(result, "isInternational") = Undefined
                /\ Prop(result, "data") = tracking
                /\ Prop(result, "tracking_number") = tracking_in
                /\ Prop(result, "woo_order") = Null

\* C22: an upstream payload whose shape cannot be interpreted never crashes
\* the resolution: a tracking payload that is null is handled by treating its
\* fields as absent, and resolveTrackingLogic still returns a result.
C22_MalformedPayloadTolerated ==
    (pc = "done" /\ tracking = Null) => Returned

\* C24: every adapter call carries a bounded timeout, so every
\* resolveTrackingLogic call eventually terminates, with a result or a failure,
\* even when an upstream never answers.
C24_CallTerminates == <>(pc = "done")

-----------------------------------------------------------------------------
(* Properties of the pure helpers *)

SimplifyDone == call.fn = "simplifyContext" /\ call.done

SimplifyReturned == SimplifyDone /\ ~call.out.threw

\* the statuses list simplifyContext was given
GivenStatuses == Prop(Prop(call.arg.items[2], "data"), "statuses")

\* the lines of the history string, first line first
HistoryLines(context) ==
    LET h == Prop(context, "history")
    IN  IF h.t = "joined" THEN h.lines ELSE <<>>

\* the time of the event a history line was made from
EventTime(line) ==
    LET s == CHOOSE s \in {GivenStatuses.items[i] : i \in 1..Len(GivenStatuses.items)} :
                ~Nullish(s) /\ HistoryLine(s) = line
    IN  Prop(s, "carrier_update_timestamp").n

\* C12: the history produced by simplifyContext has at most 3 entries and is
\* ordered newest-first, whether the upstream status list is oldest-first or
\* newest-first; with an absent, non-list or empty list it is empty.
C12_HistoryNewestFirst ==
    SimplifyReturned =>
        LET lines == HistoryLines(call.out.value)
        IN  /\ Len(lines) <= 3
            /\ \A i \in 1..Len(lines) : \A j \in 1..Len(lines) :
                  i < j => EventTime(lines[i]) > EventTime(lines[j])
            /\ ~HasStatuses(GivenStatuses) => Len(lines) = 0

PhoneDone == call.fn = "PhoneCandidates" /\ call.done

\* the digits-only form D of the raw phone given
RawDigits == DigitsOnly(call.arg.s)

\* the candidates, in generation order
Candidates == call.out.value.items

\* C13: for every raw phone whose digits-only form D has exactly 10 digits and
\* starts with 0, the candidates are D, "+"D, "00"D, "33"D[1..] and
\* "+33"D[1..], in that generation order and without duplicates.
C13_LocalNumberVariants ==
    (PhoneDone /\ Len(RawDigits) = 10 /\ RawDigits[1] = "0") =>
        LET D == RawDigits
            rest == SubSeq(D, 2, Len(D))
        IN  /\ Candidates = <<Chars(D),
                              Chars(<<"+">> \o D),
                              Chars(<<"0", "0">> \o D),
                              Chars(<<"3", "3">> \o rest),
                              Chars(<<"+", "3", "3">> \o rest)>>
            /\ \A i \in 1..Len(Candidates) : \A j \in 1..Len(Candidates) :
                  i # j => Candidates[i] # Candidates[j]

C13_Witness ==
    /\ PhoneDone
    /\ call.arg = Chars(<<"0", ".", "6", ".", "7", ".", "8", ".", "9", ".",
                          "0", ".", "1", ".", "2", ".", "3", ".", "4", ".">>)
    /\ Len(Candidates) = 5
    /\ Candidates[5] = Chars(<<"+", "3", "3", "6", "7", "8", "9", "0", "1",
                               "2", "3", "4">>)

\* "0" followed by D without its two-digit country code
LocalForm == Chars(<<"0">> \o SubSeq(RawDigits, 3, Len(RawDigits)))

HasCandidate(c) == \E i \in 1..Len(Candidates) : Candidates[i] = c

CountryCode(cc) == Len(RawDigits) >= 2 /\ SubSeq(RawDigits, 1, 2) = cc

\* C14: when D starts with 33 and has more than 9 digits the candidates
\* contain the local form "0"D[2..]; the same holds for 32 and 41 when D has
\* more than 8 digits; when the length guard fails the local form is not
\* among the candidates.
C14_LocalFormOfInternational ==
    PhoneDone =>
        /\ CountryCode(<<"3", "3">>) => (HasCandidate(LocalForm) <=> Len(RawDigits) > 9)
        /\ CountryCode(<<"3", "2">>) => (HasCandidate(LocalForm) <=> Len(RawDigits) > 8)
        /\ CountryCode(<<"4", "1">>) => (HasCandidate(LocalForm) <=> Len(RawDigits) > 8)

\* +41 and seven more digits: nine digits in all, just over the guard
C14_Witness ==
    /\ PhoneDone
    /\ call.arg = Chars(<<"4", "1", "2", "3", "4", "5", "6", "7", "8">>)
    /\ HasCandidate(Chars(<<"0", "2", "3", "4", "5", "6", "7", "8">>))
    /\ Len(Candidates) = 4

\* a country code is present on the order and differs from the home country
ForeignCountry(order) ==
    LET country == OrderCountry(order)
    IN  /\ country.t = "str"
        /\ country.s # ""
        /\ country.s # "FR"

\* the order the search path looks at: the first one found, if any
FirstFound(body) ==
    IF body.t = "list" /\ Len(body.items) > 0 THEN body.items[1] ELSE Null

\* C16: the country gate classifies an order as international iff a country
\* code is present on it and differs from "FR"; an order without country code
\* and an absent order are domestic, on the order-number path
\* (checkInternational) and on the search path (tryResolveViaWooSearch).
C16_CountryGate ==
    /\ (call.fn = "checkInternational" /\ call.done) =>
          /\ ~call.out.threw
          /\ call.out.value = Bool(ForeignCountry(call.arg))
    /\ (call.fn = "tryResolveViaWooSearch" /\ call.done) =>
          /\ ~call.out.threw
          /\ (call.out.value = Str("international")) <=> ForeignCountry(FirstFound(call.arg))

\* found by search: no shipping address, billed abroad
C16_Witness ==
    /\ call.fn = "tryResolveViaWooSearch"
    /\ call.done
    /\ call.arg = List(<<Obj([id |-> Str("1234"), billing |-> Obj([country |-> Str("DE")])])>>)
    /\ call.out = Return(Str("international"))

PickDone == call.fn = "pickTrackingNumberFromParcelsResponse" /\ call.done

\* the values under the keys of the payload, in the priority of server.js:509
KeyedLists(payload) ==
    <<Prop(payload, "parcels"), Prop(payload, "results"), Prop(payload, "data"),
      IF Truthy(Prop(payload, "parcel")) THEN List(<<Prop(payload, "parcel")>>)
      ELSE List(<<>>)>>

\* the entries of the first value that is neither null nor undefined
ChosenEntries(payload) ==
    LET vs == KeyedLists(payload)
        k == CHOOSE k \in 1..4 : ~Nullish(vs[k]) /\ \A j \in 1..(k - 1) : Nullish(vs[j])
    IN  IF vs[k].t = "list" THEN vs[k].items ELSE <<>>

\* C18: pickTrackingNumberFromParcelsResponse never throws, whatever the shape
\* of the payload; it returns the first entry's direct tracking_number, else
\* its nested tracking.tracking_number, else null.
C18_PickNeverThrows ==
    PickDone =>
        LET entries == ChosenEntries(call.arg)
            first == IF Len(entries) > 0 THEN entries[1] ELSE Undefined
            direct == Prop(first, "tracking_number")
            nested == Prop(Prop(first, "tracking"), "tracking_number")
        IN  /\ ~call.out.threw
            /\ call.out.value = IF Truthy(direct) THEN direct
                                ELSE IF Truthy(nested) THEN nested
                                ELSE Null

\* a list whose first entry is null: null is returned, nothing is thrown
C18_Witness ==
    /\ PickDone
    /\ call.arg = ParcelsBody(List(<<Null>>), Undefined, Undefined, Undefined)
    /\ call.out = Return(Null)

NonEmptyList(v) == v.t = "list" /\ Len(v.items) > 0

\* C19: when the payload carries lists under several of the keys parcels,
\* results, data (or a singular parcel), the first key in that priority whose
\* value is a non-empty list is used: an empty or non-list value under an
\* earlier key does not hide a non-empty list under a later one.
C19_FirstNonEmptyListUsed ==
    (PickDone /\ \E k \in 1..4 : NonEmptyList(KeyedLists(call.arg)[k])) =>
        LET vs == KeyedLists(call.arg)
            k == CHOOSE k \in 1..4 :
                    NonEmptyList(vs[k]) /\ \A j \in 1..(k - 1) : ~NonEmptyList(vs[j])
            first == vs[k].items[1]
            direct == Prop(first, "tracking_number")
            nested == Prop(Prop(first, "tracking"), "tracking_number")
        IN  call.out = Return(IF Truthy(direct) THEN direct
                              ELSE IF Truthy(nested) THEN nested
                              ELSE Null)

\* the events of the status list given, and the latest of them
GivenEvents ==
    {GivenStatuses.items[i] : i \in {j \in 1..Len(GivenStatuses.items) :
                                        ~Nullish(GivenStatuses.items[j])}}

EventStamp(s) == Prop(s, "carrier_update_timestamp").n

MostRecentEvent ==
    CHOOSE s \in GivenEvents : \A r \in GivenEvents : EventStamp(s) >= EventStamp(r)

\* C20: the current status is the payload's explicit status message if
\* present, else the carrier status field, else the message of the most recent
\* history entry (carrier message over generic status), else the fixed
\* fallback string.
C20_StatusPrecedence ==
    SimplifyReturned =>
        LET trackingData == Prop(call.arg.items[2], "data")
            explicit == Prop(Prop(trackingData, "status"), "message")
            carrier == Prop(trackingData, "carrier_status")
            recent == IF HasStatuses(GivenStatuses)
                      THEN IF Truthy(Prop(MostRecentEvent, "carrier_message"))
                           THEN Prop(MostRecentEvent, "carrier_message")
                           ELSE Prop(MostRecentEvent, "status")
                      ELSE Null
        IN  Prop(call.out.value, "current_status") =
                IF Truthy(explicit) THEN explicit
                ELSE IF Truthy(carrier) THEN carrier
                ELSE IF Truthy(recent) THEN recent
                ELSE Str("En cours de traitement")

\* C21: the tracking link is the upstream carrier URL if present, else the
\* provider (Sendcloud) URL, else the default link template filled with the
\* tracking number; it is null exactly when neither URL is present and there
\* is no tracking number.
C21_TrackingLinkPrecedence ==
    SimplifyReturned =>
        LET trackingData == Prop(call.arg.items[2], "data")
            trackingNumber == Prop(call.arg.items[2], "tracking_number")
            carrierUrl == Prop(trackingData, "carrier_tracking_url")
            providerUrl == Prop(trackingData, "sendcloud_tracking_url")
            link == Prop(call.out.value, "tracking_link")
        IN  /\ Truthy(carrierUrl) => link = carrierUrl
            /\ (~Truthy(carrierUrl) /\ Truthy(providerUrl)) => link = providerUrl
            /\ (~Truthy(carrierUrl) /\ ~Truthy(providerUrl) /\ Truthy(trackingNumber)) =>
                  /\ link.t = "template"
                  /\ link.head = "https://www.laposte.fr/outils/suivre-vos-envois?code="
                  /\ link.value = trackingNumber
            /\ (link = Null) <=>
                  (~Truthy(carrierUrl) /\ ~Truthy(providerUrl) /\ ~Truthy(trackingNumber))

\* both URLs are present: the carrier's is the link
C21_Witness ==
    /\ SimplifyReturned
    /\ Prop(Prop(call.arg.items[2], "data"), "carrier_tracking_url") = Str("https://carrier/T1")
    /\ Prop(Prop(call.arg.items[2], "data"), "sendcloud_tracking_url") = Str("https://sendcloud/T1")
    /\ Prop(call.out.value, "tracking_link") = Str("https://carrier/T1")

-----------------------------------------------------------------------------
(* Properties of the service around the resolver *)

\* C23: a missing required credential or base URL is detected at startup and
\* prevents the service from serving; once the service serves, no client call
\* fails on a missing variable.
C23_ConfigCheckedAtStartup ==
    boot.phase = "serving" =>
        /\ RequiredEnv \subseteq boot.env
        /\ boot.missing = "none"

\* what a call returns names its own order, its own tracking number and the
\* records it fetched itself
C25_OwnResult ==
    /\ (Returned /\ outcome = "resolved" /\ exitStep = "order") =>
            /\ Prop(result, "woo_order") = wooOrder
            /\ Prop(result, "tracking_number") = tn
            /\ Prop(result, "data") = tracking
    /\ (Returned /\ outcome = "resolved" /\ exitStep = "tracking") =>
            /\ Prop(result, "tracking_number") = tracking_in
            /\ Prop(result, "data") = tracking
    \* the order a call holds is the one it asked for, or null when the shop
    \* answered with an error status
    /\ (exitStep = "order" \/ pc \in {"order_parcel", "order_track"}) =>
            wooOrder \in {Null, Undefined} \/ Prop(wooOrder, "id") = order_number_in

KnownNumber(body) ==
    LET data == Prop(body, "data")
        accepted == Prop(data, "accepted")
        rejected == Prop(data, "rejected")
    IN  /\ accepted.t # "list" \/ accepted.items = <<>>
        /\ rejected.t = "list"
        /\ rejected.items # <<>>
        /\ Prop(Prop(rejected.items[1], "error"), "code") = Num(-18019901)

\* the first accepted entry of an answer, null when it has none
AcceptedEntry(body) ==
    LET accepted == Prop(Prop(body, "data"), "accepted")
    IN  IF accepted.t = "list" /\ accepted.items # <<>> THEN accepted.items[1] ELSE Null

\* C26: gettrackinfo is requested only after register has answered, and only
\* when register accepted nothing and its first rejection has code -18019901;
\* otherwise register is the only request. The package is the accepted entry of
\* whichever call returned one, and there is none otherwise.
C26_GetTrackInfoOnlyForKnownNumber ==
    /\ t17.pc \in {"gettrackinfo", "done"} =>
            /\ t17.requests \in {<<"register">>, <<"register", "gettrackinfo">>}
            /\ (t17.requests = <<"register", "gettrackinfo">>) =>
                    t17.reg # Undefined /\ KnownNumber(t17.reg)
    /\ (t17.pc = "done" /\ t17.reg # Undefined /\ ~KnownNumber(t17.reg)) =>
            t17.requests = <<"register">>
    /\ (t17.pc = "done" /\ t17.reg # Undefined /\ (t17.info # Undefined \/ ~KnownNumber(t17.reg))) =>
            t17.packageInfo =
                IF AcceptedEntry(t17.reg) # Null THEN AcceptedEntry(t17.reg)
                ELSE IF t17.info # Undefined THEN AcceptedEntry(t17.info)
                ELSE Null

\* a known number: the package came from gettrackinfo
C26_Witness ==
    /\ t17.pc = "done"
    /\ t17.requests = <<"register", "gettrackinfo">>
    /\ t17.source = "gettrackinfo"
    /\ t17.packageInfo # Null

\* the events of the package the flow found: origin list, then destination list
FoundEvents ==
    LET track == Prop(t17.packageInfo, "track")
    IN  (IF Prop(track, "z0").t = "list" THEN Prop(track, "z0").items ELSE <<>>)
            \o (IF Prop(track, "z1").t = "list" THEN Prop(track, "z1").items ELSE <<>>)

\* how many of the given events or lines are at least as recent as time
NoOlderThan(items, time) ==
    Cardinality({i \in 1..Len(items) :
                    (IF items[i].t = "line" THEN items[i].a ELSE Prop(items[i], "a")).n >= time})

\* C27: the 17TRACK history of every route is the 3 most recent events of the
\* origin and destination lists together, newest first; it never has more
\* than 3 entries.
C27_HistoryThreeMostRecent ==
    (t17.pc = "done" /\ ~t17.threw) =>
        LET h == t17.history
            all == FoundEvents
        IN  /\ Len(h) <= 3
            /\ Len(h) = (IF Len(all) > 3 THEN 3 ELSE Len(all))
            /\ \A i \in 1..Len(h) : \A j \in i..Len(h) : h[i].a.n >= h[j].a.n
            /\ \A i \in 1..Len(h) : \E k \in 1..Len(all) :
                    h[i].a = Prop(all[k], "a") /\ h[i].z = Prop(all[k], "z")
            /\ \A time \in 1..MaxTime :
                    NoOlderThan(h, time) =
                        (IF NoOlderThan(all, time) > Len(h) THEN Len(h)
                         ELSE NoOlderThan(all, time))

\* a function of the /sav/analyze handler was called and has settled
WasCalled(completion) == completion # [threw |-> FALSE, value |-> Str("(not called)")]

\* C28: /sav/analyze answers "international" for an international resolution,
\* without calling the normalizer or the composer; status 500 and the apology
\* when the resolution raises; otherwise the composer's text; and one response
\* per request.
C28_AnalyzeDispatch ==
    analyze.pc = "done" =>
        LET resolution == analyze.resolution
            international == /\ WasCalled(resolution) /\ ~resolution.threw
                             /\ Prop(resolution.value, "isInternational") = Bool(TRUE)
        IN  /\ Len(analyze.responses) = 1
            /\ international =>
                    /\ analyze.responses[1] = [status |-> 200, body |-> Str("international")]
                    /\ ~WasCalled(analyze.context)
                    /\ ~WasCalled(analyze.composed)
            /\ (WasCalled(resolution) /\ resolution.threw) =>
                    analyze.responses[1] = [status |-> 500, body |-> Apology]
            /\ (WasCalled(resolution) /\ ~resolution.threw /\ ~international
                    /\ ~(WasCalled(analyze.composed) /\ analyze.composed.threw)) =>
                    /\ WasCalled(analyze.composed)
                    /\ analyze.responses[1] =
                            [status |-> 200, body |-> analyze.composed.value]

\* C29: the is_found flag of simplifyContext is true for every resolution that
\* carries an order, the one without tracking number included, and false only
\* for the not-found result.
C29_FoundFlag ==
    SimplifyReturned =>
        LET resolution == call.arg.items[2]
            found == Prop(call.out.value, "is_found")
        IN  /\ Truthy(Prop(resolution, "woo_order")) => found = Bool(TRUE)
            /\ found = Bool(FALSE) => IsNotFound(resolution)

\* C30: polling a ticket is one-shot. A check that finds the ticket done or in
\* error returns its result and removes it, and every later check of that
\* ticket answers 'Ticket introuvable'; a check that finds it pending answers
\* pending and leaves the task map as it was; a pending ticket is never removed.
C30_PollingOneShot ==
    LET last == chat.last
        ticket == last.ticket
        introuvable == [status |-> "error", message |-> Str("Ticket introuvable")]
    IN  /\ last.found = "done" =>
                /\ last.answer = [status |-> "done", reply |-> last.before[ticket].result]
                /\ ticket \in chat.collected
        /\ last.found = "error" =>
                /\ last.answer = [status |-> "error", message |-> last.before[ticket].result]
                /\ ticket \in chat.collected
        /\ last.collected => last.answer = introuvable
        /\ last.found = "pending" =>
                /\ last.answer = [status |-> "pending"]
                /\ ticket \notin chat.collected \/ last.collected
        /\ \A id \in DOMAIN last.before :
                last.before[id].status = "pending" /\ last.answer.status # "none" =>
                    id \in DOMAIN chat.tasks \/ id # ticket

\* C31: every /chat/start gets an id under which the task map holds no other
\* ticket, also within one clock millisecond; so the result stored under an id
\* is the reply to the one request that created it.
C31_TicketIdsDistinct ==
    /\ \A j \in 1..Len(chat.jobs) : chat.jobs[j].fresh
    /\ \A id \in DOMAIN chat.tasks :
            chat.tasks[id].status = "done" =>
                \A j \in 1..Len(chat.jobs) :
                    chat.jobs[j].ticket = id => chat.tasks[id].result = Num(j)

\* the task map holds the ticket as pending
Pending(id) == id \in DOMAIN chat.tasks /\ chat.tasks[id].status = "pending"

\* C32: a ticket is pending from the start of its request and, when the model
\* call returns or throws, leaves the pending state: it becomes done or error,
\* also when the background task fails before it reaches the model call.
C32_PendingEnds ==
    /\ \A id \in 1..MaxClock : Pending(id) ~> ~Pending(id)
    /\ [](\A j \in 1..Len(chat.jobs) :
            chat.jobs[j].pc = "rejected" /\ chat.jobs[j].ticket \in DOMAIN chat.tasks =>
                chat.tasks[chat.jobs[j].ticket].status # "pending"
                    \/ \E k \in (j + 1)..Len(chat.jobs) :
                            chat.jobs[k].ticket = chat.jobs[j].ticket)

\* a background task failed while deleting the history file: its ticket is in error
C32_Witness ==
    \E j \in 1..Len(chat.jobs) :
        /\ chat.jobs[j].pc = "rejected"
        /\ chat.jobs[j].ticket \in DOMAIN chat.tasks
        /\ chat.tasks[chat.jobs[j].ticket].status = "error"

\* the exchange of request j: its user message and the assistant's reply
Exchange(j) == {[role |-> "user", request |-> j], [role |-> "assistant", request |-> j]}

\* C33: the history file keeps every completed exchange of the thread (those
\* not followed by a request that starts a new thread), also when two
\* background tasks overlap: no update is lost.
C33_HistoryKeepsExchanges ==
    \A j \in 1..Len(chat.jobs) :
        (/\ chat.jobs[j].pc = "done"
         /\ \A k \in (j + 1)..Len(chat.jobs) :
                ~chat.jobs[k].isNewThread /\ chat.jobs[k].pc \in {"done", "failed"}) =>
            /\ chat.file.exists
            /\ Exchange(j) \subseteq {chat.file.content[i] : i \in 1..Len(chat.file.content)}

\* C34: the standalone resolver's pickTrackingNumberFromParcelsResponse, given
\* a non-empty list under parcels (or results, or data, the earlier keys being
\* empty), returns the tracking number of the list's first entry, the direct
\* field before the nested one; it returns null only when no list is found or
\* the first entry has neither field.
C34_StandalonePickUsesList ==
    (call.fn = "part_002.pickTrackingNumberFromParcelsResponse" /\ call.done) =>
        LET vs == <<Prop(call.arg, "parcels"), Prop(call.arg, "results"),
                    Prop(call.arg, "data")>>
        IN  \A k \in 1..3 :
                (NonEmptyList(vs[k]) /\ \A j \in 1..(k - 1) : ~Truthy(vs[j])) =>
                    LET first == vs[k].items[1]
                        direct == Prop(first, "tracking_number")
                        nested == Prop(Prop(first, "tracking"), "tracking_number")
                    IN  call.out = Return(IF Truthy(direct) THEN direct
                                          ELSE IF Truthy(nested) THEN nested
                                          ELSE Null)

\* the identifiers of the /sav/resolve request, and the response sent
ResolveGiven(group, field) == Truthy(Prop(Prop(resolve.extracted, group), field))

ResolveApis == {resolve.requests[i].api : i \in 1..Len(resolve.requests)}

\* C35: /sav/resolve takes the tracking number, else the order number, else
\* the email, each exclusively: with a tracking number it only fetches
\* tracking; else with an order number it never consults the shop; else with
\* an email it answers an email path; with none, no_identifiers. A successful
\* response carries one path label, and a failed adapter call gives status 500
\* with ok false.
C35_ResolvePriority ==
    (resolve.pc = "done" /\ Truthy(resolve.extracted)) =>
        LET response == resolve.responses[1]
            byTracking == ResolveGiven("shipment", "tracking_number")
            byOrder == ~byTracking /\ ResolveGiven("order", "order_number")
            byEmail == ~byTracking /\ ~byOrder /\ ResolveGiven("customer", "email")
            failed == \E i \in 1..Len(resolve.replies) : resolve.replies[i].threw
        IN  /\ Len(resolve.responses) = 1
            /\ failed <=> (response.status = 500 /\ ~response.ok)
            /\ ~failed => response.status = 200 /\ response.ok
            /\ byTracking =>
                    /\ resolve.requests =
                            <<[api |-> "sendcloudTrackByTrackingNumber",
                               arg |-> Prop(Prop(resolve.extracted, "shipment"),
                                            "tracking_number")]>>
                    /\ ~failed => response.path = "tracking_number"
            /\ byOrder =>
                    /\ "wooLookupByEmail" \notin ResolveApis
                    /\ resolve.requests[1] =
                            [api |-> "sendcloudFindParcelByOrderNumber",
                             arg |-> Prop(Prop(resolve.extracted, "order"), "order_number")]
                    /\ ~failed => response.path \in {"order_number", "order_number_no_tracking"}
            /\ byEmail =>
                    /\ resolve.requests[1].api = "wooLookupByEmail"
                    /\ ~failed => response.path \in
                            {"email->woo(tracking)", "email->woo(order)->sendcloud(no_tracking)",
                             "email->woo(order)->sendcloud->tracking", "email_no_order_found"}
            /\ (~byTracking /\ ~byOrder /\ ~byEmail) =>
                    /\ resolve.requests = <<>>
                    /\ response.path = "no_identifiers"

\* an order number and an email were given: the order number was used
C35_Witness ==
    /\ resolve.pc = "done"
    /\ ResolveGiven("order", "order_number")
    /\ ResolveGiven("customer", "email")
    /\ Len(resolve.responses) = 1
    /\ resolve.responses[1].path = "order_number"

\* C36: when the order's metadata has values under several keys of the
\* allow-list, wooLookupBySearchTerm returns the value of the first such key
\* in allow-list order, as extractTrackingFromOrderMeta does; with an empty or
\* unset allow-list it selects nothing.
C36_FirstAllowedKeyWins ==
    (call.fn = "TRACKING_META_KEYS" /\ call.done) =>
        LET keys == call.arg.items[1].items
            meta == Prop(call.arg.items[2], "meta_data").items
            Valued(k) == \E i \in 1..Len(meta) :
                            Prop(meta[i], "key") = k /\ Prop(meta[i], "value") # Str("")
            first == CHOOSE n \in 1..Len(keys) :
                        Valued(keys[n]) /\ \A m \in 1..(n - 1) : ~Valued(keys[m])
            entry == CHOOSE i \in 1..Len(meta) :
                        /\ Prop(meta[i], "key") = keys[first]
                        /\ Prop(meta[i], "value") # Str("")
                        /\ \A j \in 1..(i - 1) :
                                ~(Prop(meta[j], "key") = keys[first]
                                    /\ Prop(meta[j], "value") # Str(""))
            server == Prop(call.out.value, "server")
        IN  /\ keys = <<Str("")>> => server = Null
            /\ (keys # <<Str("")>> /\ \E n \in 1..Len(keys) : Valued(keys[n])) =>
                    server = Prop(meta[entry], "value")
            /\ server = Prop(call.out.value, "standalone")

\* C37: a resolved result returned through the order-number, email or phone
\* step carries an order record that was actually fetched, and that record's
\* country is absent or domestic.
C37_ResolvedOrderRetrievedDomestic ==
    (outcome = "resolved" /\ exitStep \in {"order", "email", "phone"}) =>
        /\ ~Nullish(Prop(result, "woo_order"))
        /\ ~checkInternational(Prop(result, "woo_order"))

\* C38: when the order-number step fetched an order record and the call then
\* ends neither international nor in error, the result carries that order
\* (resolved or resolved_no_tracking); the bare not_found result is not
\* returned after an order was found.
C38_FoundOrderCarried ==
    [][(/\ pc = "order_parcel"
        /\ ~Nullish(wooOrder)
        /\ pc' = "done"
        /\ outcome' \notin {"international", "error"})
            => /\ outcome' \in {"resolved", "resolved_no_tracking"}
               /\ Prop(result', "woo_order") = wooOrder]_vars

====
